---- MODULE Spec2Model ----
(***************************************************************************)
(* Audience-Syndication-System: identity matching, bulk reconciliation,    *)
(* match-append processing, audience-member edits and purchase removal,    *)
(* modelled over the audience_members table.                               *)
(*                                                                         *)
(* lib/deduplication.ts      -> src/unnamed/part_000                       *)
(* lib/match-append.ts       -> src/unnamed/part_001                       *)
(* api/audience/[id] PATCH   -> src/app/api/audience/[id]/route.ts         *)
(* api/purchases/upload POST -> src/unnamed/part_011                       *)
(* lib/meta-api.ts           -> src/lib/meta-api.ts                        *)
(* api/meta/sync POST        -> src/app/api/meta/sync/route.ts             *)
(* api/cron/daily GET        -> src/unnamed/part_003                       *)
(* api/process POST          -> src/unnamed/part_012                       *)
(* api/audience/upload POST  -> src/unnamed/part_010                       *)
(***************************************************************************)
EXTENDS Integers, Sequences, FiniteSets, TLC

VARIABLES
    members,        \* audience_members table: id -> row
    nextId,         \* SERIAL sequence of audience_members.id
    now,            \* logical clock: value of new Date() in the next operation
    statusDefault,  \* column default of audience_members.status (schema not in the sources)
    syncLogs,       \* meta_sync_log rows, in the order of their creation
    fileLogs,       \* file_processing_log rows, in the order of their creation
    last,           \* the operation that produced this state, its inputs and its result
    audiences,      \* clients.metaAudienceId: client id -> audience id or NULL
    requests        \* the requests in flight: request -> its position and locals

vars == <<members, nextId, now, statusDefault, syncLogs, fileLogs, last, audiences,
          requests>>

----------------------------------------------------------------------------
(* Bounds *)

\* number of operations in one behaviour
MaxOps == 2
\* number of contact rows in a short input file
MaxRows == 2
\* number of rows stored before a matcher is applied on its own
MaxStored == 2

----------------------------------------------------------------------------
(* Program constants *)

DAYS_REMAINING_DEFAULT == 30
BATCH_SIZE == 100
\* BATCH_SIZE, MAX_RETRIES of lib/meta-api.ts
META_BATCH_SIZE == 1000
MAX_RETRIES == 3
INITIAL_BACKOFF_MS == 1000

ACTIVE == "ACTIVE"
NO_IDENTIFIER == "NO_IDENTIFIER"

----------------------------------------------------------------------------
(* Values *)

\* SQL NULL / JS null
NULL == "<null>"

\* the tenants (clients table); UnknownClient has no row in clients
Clients == {1, 2}
UnknownClient == 3

\* JS truthiness of a string | null
Truthy(s) == s # NULL /\ s # ""

\* String.prototype.trim on the strings of the model
Trim(s) == IF s = " " THEN "" ELSE s

\* case folding used by Prisma's mode: 'insensitive' and by normalizeEmail
Lower(s) ==
    CASE s = "John" -> "john"
      [] s = "Doe" -> "doe"
      [] s = "Jane" -> "jane"
      [] s = "A@X.COM" -> "a@x.com"
      [] OTHER -> s

\* Prisma { equals: v, mode: 'insensitive' } on a nullable column
EqualsInsensitive(col, v) == col # NULL /\ v # NULL /\ Lower(col) = Lower(v)

\* Prisma { equals: v } on a nullable column
EqualsExact(col, v) == col # NULL /\ v # NULL /\ col = v

\* a ParsedRecord as parseCSV produces it
Contact(f, l, e, p) == [firstName |-> f, lastName |-> l, email |-> e, phone |-> p]

\* the contacts that input files are made of
John == Contact("John", "Doe", "a@x.com", "15551")
\* same phone and (case-insensitively) same names as John, another email
JohnByPhone == Contact("john", "Doe", "b@x.com", "15551")
\* same email and phone as John, another first name
Jane == Contact("Jane", "Doe", "a@x.com", "15551")
\* John after a change of phone, under the email of JohnByPhone
JohnMoved == Contact("John", "Doe", "b@x.com", "15552")
\* a contact with neither email nor phone
Anon == Contact("John", "Doe", NULL, NULL)
\* a contact whose first name is empty (parseCSV keeps a row with one name)
NoFirst == Contact("", "Doe", "a@x.com", "15551")

\* row i of the filler that makes a file long enough for the batched path
PadRow(i) == Contact("Pad", "Row", "pad" \o ToString(i) \o "@x.com", NULL)

\* sequences over S of length 1..n
RECURSIVE SeqsUpTo(_, _)
SeqsUpTo(S, n) ==
    IF n = 0 THEN {}
    ELSE LET shorter == SeqsUpTo(S, n - 1)
         IN  {<<x>> : x \in S} \cup shorter
               \cup {Append(s, x) : s \in {t \in shorter : Len(t) = n - 1}, x \in S}

\* the input files of at most MaxRows rows over the contacts S
Files(S) == SeqsUpTo(S, MaxRows)

\* a short file followed by filler rows up to BATCH_SIZE + 1 rows
Padded(f) == f \o [i \in 1..(BATCH_SIZE + 1 - Len(f)) |-> PadRow(i)]

\* the files of BATCH_SIZE + 1 rows that start with two contacts of S
LongFiles(S) == {Padded(<<a, b>>) : a \in S, b \in S}

\* the rows whose write the environment may make fail: none, or the first row
FailChoices == {{}, {1}}

\* name of the file uploaded at time n
SourceFileAt(n) == "day" \o ToString(n) \o ".csv"

----------------------------------------------------------------------------
(* Identity matcher of bulk ingestion: lib/deduplication.ts *)

\* the email+name query without the clientId condition
EmailNameMatchesAnyClient(M, record, clientId) ==
    {id \in DOMAIN M :
        /\ EqualsInsensitive(M[id].email, record.email)
        /\ EqualsInsensitive(M[id].firstName, record.firstName)
        /\ EqualsInsensitive(M[id].lastName, record.lastName)}

\* where-clause of the email+name query of the three matchers
EmailNameMatches(M, record, clientId) ==
    {id \in DOMAIN M :
        /\ M[id].clientId = clientId
        /\ EqualsInsensitive(M[id].email, record.email)
        /\ EqualsInsensitive(M[id].firstName, record.firstName)
        /\ EqualsInsensitive(M[id].lastName, record.lastName)}

\* where-clause of the phone+name query of the three matchers
PhoneNameMatches(M, record, clientId) ==
    {id \in DOMAIN M :
        /\ M[id].clientId = clientId
        /\ EqualsExact(M[id].phone, record.phone)
        /\ EqualsInsensitive(M[id].firstName, record.firstName)
        /\ EqualsInsensitive(M[id].lastName, record.lastName)}

NoMatch == [isNew |-> TRUE, audienceMemberId |-> 0, matchedOn |-> NULL]

Matched(id, tag) == [isNew |-> FALSE, audienceMemberId |-> id, matchedOn |-> tag]

\* deduplicateRecord with the email-only and phone-only fallbacks of match-append
deduplicateRecordWithFallbacks(M, record, clientId) ==
    LET emailName == IF Truthy(record.email)
                     THEN EmailNameMatches(M, record, clientId) ELSE {}
        phoneName == IF Truthy(record.phone)
                     THEN PhoneNameMatches(M, record, clientId) ELSE {}
        emailOnly == {id \in DOMAIN M : M[id].clientId = clientId
                                          /\ EqualsInsensitive(M[id].email, record.email)}
        phoneOnly == {id \in DOMAIN M : M[id].clientId = clientId
                                          /\ EqualsExact(M[id].phone, record.phone)}
    IN  IF emailName # {} THEN {Matched(id, "email+name") : id \in emailName}
        ELSE IF phoneName # {} THEN {Matched(id, "phone+name") : id \in phoneName}
        ELSE IF emailOnly # {} THEN {Matched(id, "email") : id \in emailOnly}
        ELSE IF phoneOnly # {} THEN {Matched(id, "phone") : id \in phoneOnly}
        ELSE {NoMatch}

\* deduplicateRecord with the two strategies tried in the other order
deduplicateRecordPhoneFirst(M, record, clientId) ==
    LET emailMatch == IF Truthy(record.email)
                      THEN EmailNameMatches(M, record, clientId) ELSE {}
        phoneMatch == IF Truthy(record.phone)
                      THEN PhoneNameMatches(M, record, clientId) ELSE {}
    IN  IF phoneMatch # {} THEN {Matched(id, "phone+name") : id \in phoneMatch}
        ELSE IF emailMatch # {} THEN {Matched(id, "email+name") : id \in emailMatch}
        ELSE {NoMatch}

\* deduplicateRecord: the set of results findFirst (no orderBy) can produce
deduplicateRecord(M, record, clientId) ==
    LET emailMatch == IF Truthy(record.email)
                      THEN EmailNameMatches(M, record, clientId) ELSE {}
        phoneMatch == IF Truthy(record.phone)
                      THEN PhoneNameMatches(M, record, clientId) ELSE {}
    IN  IF emailMatch # {} THEN {Matched(id, "email+name") : id \in emailMatch}
        ELSE IF phoneMatch # {} THEN {Matched(id, "phone+name") : id \in phoneMatch}
        ELSE {NoMatch}

----------------------------------------------------------------------------
(* Bulk reconciliation: lib/deduplication.ts processRecords *)

EmptyResult == [newRecords |-> 0, duplicates |-> 0, updated |-> 0, errors |-> <<>>]

RowError(n) == [kind |-> "Row", n |-> n]
BatchInsertError == [kind |-> "Batch insert failed", n |-> 0]
BatchUpdateError(k) == [kind |-> "Batch update failed", n |-> k]

\* data of prisma.audienceMember.create in processRecords: status is not set
NewMember(record, clientId, sourceFile, today, dflt) ==
    [clientId |-> clientId,
     firstName |-> record.firstName,
     lastName |-> record.lastName,
     email |-> record.email,
     phone |-> record.phone,
     status |-> dflt,
     dateAdded |-> today,
     daysRemaining |-> DAYS_REMAINING_DEFAULT,
     updatedAt |-> today,
     sourceFile |-> sourceFile]

\* the update with the refresh of dateAdded that re-enrollment makes
OverwriteMemberRefreshesDateAdded(m, record, today) ==
    [m EXCEPT !.daysRemaining = DAYS_REMAINING_DEFAULT,
              !.email = record.email,
              !.phone = record.phone,
              !.firstName = record.firstName,
              !.lastName = record.lastName,
              !.dateAdded = today,
              !.updatedAt = today]

\* data of prisma.audienceMember.update in processRecords
OverwriteMember(m, record, today) ==
    [m EXCEPT !.daysRemaining = DAYS_REMAINING_DEFAULT,
              !.email = record.email,
              !.phone = record.phone,
              !.firstName = record.firstName,
              !.lastName = record.lastName,
              !.updatedAt = today]

\* the table with one more row
Insert(M, id, row) == [i \in DOMAIN M \cup {id} |-> IF i = id THEN row ELSE M[i]]

\* a run in progress: the table, the id sequence, the result, and for every row
\* handled so far its dedupResult and whether its write was committed
RunState(M, nid, res) == [M |-> M, nextId |-> nid, result |-> res, rows |-> <<>>]

\* the entry of row i in the rows of a run
RowOutcome(i, d, written) == [row |-> i, dedup |-> d, written |-> written]

\* the iteration with the test of dedupResult.isNew left out: every row is created
IndividualStepAlwaysCreates(st, record, i, clientId, sourceFile, today, dflt, fail) ==
    {IF i \in fail
        THEN [st EXCEPT !.result.errors = Append(@, RowError(i)),
                        !.rows = Append(@, RowOutcome(i, d, FALSE))]
     ELSE [st EXCEPT !.M = Insert(@, st.nextId,
                                  NewMember(record, clientId, sourceFile, today, dflt)),
                     !.nextId = @ + 1,
                     !.result.newRecords = @ + 1,
                     !.rows = Append(@, RowOutcome(i, d, TRUE))]
     : d \in deduplicateRecord(st.M, record, clientId)}

\* one iteration of the loop of processIndividualRecords, for row i
IndividualStep(st, record, i, clientId, sourceFile, today, dflt, fail) ==
    {IF i \in fail
        THEN [st EXCEPT !.result.errors = Append(@, RowError(i)),
                        !.rows = Append(@, RowOutcome(i, d, FALSE))]
     ELSE IF d.isNew
        THEN [st EXCEPT !.M = Insert(@, st.nextId,
                                     NewMember(record, clientId, sourceFile, today, dflt)),
                        !.nextId = @ + 1,
                        !.result.newRecords = @ + 1,
                        !.rows = Append(@, RowOutcome(i, d, TRUE))]
     ELSE [st EXCEPT !.M[d.audienceMemberId] = OverwriteMember(@, record, today),
                     !.result.updated = @ + 1,
                     !.result.duplicates = @ + 1,
                     !.rows = Append(@, RowOutcome(i, d, TRUE))]
     : d \in deduplicateRecord(st.M, record, clientId)}

\* the iterations lo..hi of the loop of processIndividualRecords, in order
\* (the range is halved so that the evaluation depth stays logarithmic)
RECURSIVE IndividualLoop(_, _, _, _, _, _, _, _, _)
IndividualLoop(S, records, lo, hi, clientId, sourceFile, today, dflt, fail) ==
    IF lo > hi THEN S
    ELSE IF lo = hi
    THEN UNION {IndividualStep(st, records[lo], lo, clientId, sourceFile, today, dflt, fail)
                : st \in S}
    ELSE LET mid == (lo + hi) \div 2
             first == IndividualLoop(S, records, lo, mid,
                                     clientId, sourceFile, today, dflt, fail)
         IN  IF first = {} THEN {}
             ELSE IndividualLoop(first, records, mid + 1, hi,
                                 clientId, sourceFile, today, dflt, fail)

\* processIndividualRecords: every run state the loop can end in
processIndividualRecords(M, nid, records, clientId, sourceFile, today, dflt, fail) ==
    IndividualLoop({RunState(M, nid, EmptyResult)}, records, 1, Len(records),
                   clientId, sourceFile, today, dflt, fail)

\* first loop of processBatchedRecords: every row is matched against the table
\* as it is before the run; row keeps the input position of the record
RECURSIVE Categorize(_, _, _, _, _, _)
Categorize(C, M, records, lo, hi, clientId) ==
    IF lo > hi THEN C
    ELSE IF lo = hi
    THEN {IF d.isNew
             THEN [c EXCEPT !.newRecords = Append(@, [record |-> records[lo], row |-> lo])]
             ELSE [c EXCEPT !.updateRecords =
                     Append(@, [record |-> records[lo], row |-> lo,
                                audienceMemberId |-> d.audienceMemberId,
                                matchedOn |-> d.matchedOn])]
          : c \in C, d \in deduplicateRecord(M, records[lo], clientId)}
    ELSE LET mid == (lo + hi) \div 2
             first == Categorize(C, M, records, lo, mid, clientId)
         IN  IF first = {} THEN {}
             ELSE Categorize(first, M, records, mid + 1, hi, clientId)

\* prisma.audienceMember.createMany: one statement, all rows or none
CreateMany(st, news, clientId, sourceFile, today, dflt) ==
    [st EXCEPT !.M = [id \in DOMAIN st.M \cup (st.nextId .. st.nextId + Len(news) - 1) |->
                        IF id \in DOMAIN st.M THEN st.M[id]
                        ELSE NewMember(news[id - st.nextId + 1].record,
                                       clientId, sourceFile, today, dflt)],
               !.nextId = @ + Len(news)]

\* the updates of one prisma.$transaction, applied in order
\* (the last update of a row in the batch decides the row's values)
ApplyUpdates(M, batch, today) ==
    [id \in DOMAIN M |->
        LET hits == {k \in DOMAIN batch : batch[k].audienceMemberId = id}
        IN  IF hits = {} THEN M[id]
            ELSE LET k == CHOOSE k \in hits : \A j \in hits : j <= k
                 IN  OverwriteMember(M[id], batch[k].record, today)]

Min(a, b) == IF a < b THEN a ELSE b

\* updateRecords.slice(i, i + BATCH_SIZE) for the 0-based offset i
Slice(s, i) == SubSeq(s, i + 1, Min(i + BATCH_SIZE, Len(s)))

\* third loop of processBatchedRecords: one transaction per slice of BATCH_SIZE updates
RECURSIVE UpdateLoop(_, _, _, _, _)
UpdateLoop(st, updates, i, today, fail) ==
    IF i >= Len(updates) THEN st
    ELSE LET batch == Slice(updates, i)
             failed == \E k \in DOMAIN batch : batch[k].row \in fail
         IN  UpdateLoop(
                IF failed
                THEN [st EXCEPT !.result.errors =
                                    Append(@, BatchUpdateError((i \div BATCH_SIZE) + 1))]
                ELSE [st EXCEPT !.M = ApplyUpdates(@, batch, today),
                                !.result.updated = @ + Len(batch),
                                !.result.duplicates = @ + Len(batch)],
                updates, i + BATCH_SIZE, today, fail)

\* second step of processBatchedRecords: the bulk insert of the new records
BatchInsert(st, news, clientId, sourceFile, today, dflt, fail) ==
    IF Len(news) = 0 THEN st
    ELSE IF \E k \in DOMAIN news : news[k].row \in fail
    THEN [st EXCEPT !.result.errors = Append(@, BatchInsertError)]
    ELSE [CreateMany(st, news, clientId, sourceFile, today, dflt)
            EXCEPT !.result.newRecords = Len(news)]

\* the rows of a batched run: a new row is written when the bulk insert succeeds,
\* a matched row when the transaction of its slice succeeds
BatchedRows(c, n, fail) ==
    LET insertOk == \A k \in DOMAIN c.newRecords : c.newRecords[k].row \notin fail
        sliceOk(k) ==
            \A j \in DOMAIN c.updateRecords :
                ((j - 1) \div BATCH_SIZE = (k - 1) \div BATCH_SIZE)
                    => c.updateRecords[j].row \notin fail
    IN  [i \in 1..n |->
            IF \E k \in DOMAIN c.updateRecords : c.updateRecords[k].row = i
            THEN LET k == CHOOSE k \in DOMAIN c.updateRecords : c.updateRecords[k].row = i
                 IN  RowOutcome(i, Matched(c.updateRecords[k].audienceMemberId,
                                           c.updateRecords[k].matchedOn), sliceOk(k))
            ELSE RowOutcome(i, NoMatch, insertOk)]

\* processBatchedRecords: every run state the three steps can end in
processBatchedRecords(M, nid, records, clientId, sourceFile, today, dflt, fail) ==
    {[UpdateLoop(BatchInsert(RunState(M, nid, EmptyResult), c.newRecords,
                             clientId, sourceFile, today, dflt, fail),
                 c.updateRecords, 0, today, fail)
        EXCEPT !.rows = BatchedRows(c, Len(records), fail)]
     : c \in Categorize({[newRecords |-> <<>>, updateRecords |-> <<>>]},
                        M, records, 1, Len(records), clientId)}

\* the choice of path in processRecords
useBatching(records) == Len(records) > BATCH_SIZE

\* processRecords for a non-empty input and an existing client
processRecords(M, nid, records, clientId, sourceFile, today, dflt, fail) ==
    IF useBatching(records)
    THEN processBatchedRecords(M, nid, records, clientId, sourceFile, today, dflt, fail)
    ELSE processIndividualRecords(M, nid, records, clientId, sourceFile, today, dflt, fail)

----------------------------------------------------------------------------
(* Match-append processing: lib/match-append.ts *)

EmailMatches(M, record, clientId) ==
    {id \in DOMAIN M :
        M[id].clientId = clientId /\ EqualsInsensitive(M[id].email, record.email)}

PhoneMatches(M, record, clientId) ==
    {id \in DOMAIN M :
        M[id].clientId = clientId /\ EqualsExact(M[id].phone, record.phone)}

NullMatch == [id |-> 0, matchedBy |-> "none"]

\* findMatchingRecord: the set of results the four findFirst queries can produce
findMatchingRecord(M, record, clientId) ==
    LET named == Truthy(record.firstName) /\ Truthy(record.lastName)
        s1 == IF Truthy(record.email) /\ named
              THEN EmailNameMatches(M, record, clientId) ELSE {}
        s2 == IF Truthy(record.phone) /\ named
              THEN PhoneNameMatches(M, record, clientId) ELSE {}
        s3 == IF Truthy(record.email) THEN EmailMatches(M, record, clientId) ELSE {}
        s4 == IF Truthy(record.phone) THEN PhoneMatches(M, record, clientId) ELSE {}
    IN  IF s1 # {} THEN {[id |-> id, matchedBy |-> "email+name"] : id \in s1}
        ELSE IF s2 # {} THEN {[id |-> id, matchedBy |-> "phone+name"] : id \in s2}
        ELSE IF s3 # {} THEN {[id |-> id, matchedBy |-> "email"] : id \in s3}
        ELSE IF s4 # {} THEN {[id |-> id, matchedBy |-> "phone"] : id \in s4}
        ELSE {NullMatch}

\* getRecordStatus
getRecordStatus(email, phone) ==
    LET hasEmail == email # NULL /\ Trim(email) # ""
        hasPhone == phone # NULL /\ Trim(phone) # ""
    IN  IF hasEmail \/ hasPhone THEN ACTIVE ELSE NO_IDENTIFIER

\* updateData of processRecordWithMatch in update mode, applied to the matched row
MatchUpdate(m, record, today) ==
    LET e == Truthy(record.email) /\ record.email # m.email
        p == Truthy(record.phone) /\ record.phone # m.phone
        f == Truthy(record.firstName) /\ record.firstName # m.firstName
        l == Truthy(record.lastName) /\ record.lastName # m.lastName
        hadIdentifier == Truthy(m.email) \/ Truthy(m.phone)
        hasIdentifierNow == Truthy(record.email) \/ Truthy(record.phone)
        reenroll == ~hadIdentifier /\ hasIdentifierNow
        fieldsUpdated == (IF e THEN {"email"} ELSE {}) \cup (IF p THEN {"phone"} ELSE {})
                           \cup (IF f THEN {"firstName"} ELSE {})
                           \cup (IF l THEN {"lastName"} ELSE {})
                           \cup (IF reenroll THEN {"status"} ELSE {})
    IN  [fieldsUpdated |-> fieldsUpdated,
         row |-> [m EXCEPT !.email = IF e THEN record.email ELSE @,
                           !.phone = IF p THEN record.phone ELSE @,
                           !.firstName = IF f THEN record.firstName ELSE @,
                           !.lastName = IF l THEN record.lastName ELSE @,
                           !.status = IF reenroll THEN ACTIVE ELSE @,
                           !.daysRemaining = IF reenroll THEN DAYS_REMAINING_DEFAULT ELSE @,
                           !.dateAdded = IF reenroll THEN today ELSE @,
                           !.updatedAt = today]]

EmptyBatchResult ==
    [created |-> 0, updated |-> 0, skipped |-> 0, noIdentifier |-> 0,
     results |-> <<>>, errors |-> <<>>]

\* the counters of batchProcessWithMatch after one processed record
Counted(res, record, pr) ==
    [res EXCEPT !.results = Append(@, pr),
                !.created = IF pr.action = "created" THEN @ + 1 ELSE @,
                !.updated = IF pr.action = "updated" THEN @ + 1 ELSE @,
                !.skipped = IF pr.action = "skipped" THEN @ + 1 ELSE @,
                !.noIdentifier =
                    IF getRecordStatus(record.email, record.phone) = NO_IDENTIFIER
                    THEN @ + 1 ELSE @]

\* processRecordWithMatch inside one iteration of batchProcessWithMatch, for row i;
\* a write that fails throws, and the iteration records the error
processRecordWithMatch(st, record, i, mode, clientId, sourceFile, today, fail) ==
    {IF mt.matchedBy = "none"
        THEN IF i \in fail
             THEN [st EXCEPT !.result.errors = Append(@, RowError(i))]
             ELSE [st EXCEPT
                     !.M = Insert(@, st.nextId,
                                  [NewMember(record, clientId, sourceFile, today, ACTIVE)
                                     EXCEPT !.status = getRecordStatus(record.email,
                                                                       record.phone)]),
                     !.nextId = @ + 1,
                     !.result = Counted(@, record,
                                        [action |-> "created", recordId |-> st.nextId,
                                         matchedBy |-> "none", fieldsUpdated |-> {}])]
     ELSE IF mode = "append"
        THEN [st EXCEPT !.result = Counted(@, record,
                                           [action |-> "skipped", recordId |-> mt.id,
                                            matchedBy |-> mt.matchedBy,
                                            fieldsUpdated |-> {}])]
     ELSE LET u == MatchUpdate(st.M[mt.id], record, today)
          IN  IF u.fieldsUpdated = {}
              THEN [st EXCEPT !.result = Counted(@, record,
                                                 [action |-> "skipped", recordId |-> mt.id,
                                                  matchedBy |-> mt.matchedBy,
                                                  fieldsUpdated |-> {}])]
              ELSE IF i \in fail
              THEN [st EXCEPT !.result.errors = Append(@, RowError(i))]
              ELSE [st EXCEPT !.M[mt.id] = u.row,
                              !.result = Counted(@, record,
                                                 [action |-> "updated", recordId |-> mt.id,
                                                  matchedBy |-> mt.matchedBy,
                                                  fieldsUpdated |-> u.fieldsUpdated])]
     : mt \in findMatchingRecord(st.M, record, clientId)}

RECURSIVE MatchLoop(_, _, _, _, _, _, _, _)
MatchLoop(S, records, i, mode, clientId, sourceFile, today, fail) ==
    IF i > Len(records) THEN S
    ELSE MatchLoop(
            UNION {processRecordWithMatch(st, records[i], i, mode, clientId,
                                          sourceFile, today, fail) : st \in S},
            records, i + 1, mode, clientId, sourceFile, today, fail)

\* batchProcessWithMatch: every run state the loop can end in
batchProcessWithMatch(M, nid, records, mode, clientId, sourceFile, today, fail) ==
    MatchLoop({[M |-> M, nextId |-> nid, result |-> EmptyBatchResult]},
              records, 1, mode, clientId,
              sourceFile, today, fail)

----------------------------------------------------------------------------
(* Audience-member edit: PATCH /api/audience/[id] *)

\* a field that the request body leaves out
UNDEFINED == "<undefined>"

Body(e, p, f, l) == [email |-> e, phone |-> p, firstName |-> f, lastName |-> l]

\* the request bodies of the model (all pass updateSchema)
PatchBodies ==
    { Body("A@X.COM", UNDEFINED, UNDEFINED, UNDEFINED),
      Body(NULL, UNDEFINED, UNDEFINED, UNDEFINED),
      Body(UNDEFINED, "15552", UNDEFINED, UNDEFINED),
      Body(UNDEFINED, " ", UNDEFINED, UNDEFINED),
      Body(NULL, NULL, UNDEFINED, UNDEFINED),
      Body(UNDEFINED, UNDEFINED, "Jane", NULL) }

\* the row that PATCH writes for the existing row m
PatchedMember(m, data, today) ==
    LET newEmail == IF data.email # UNDEFINED THEN data.email ELSE m.email
        newPhone == IF data.phone # UNDEFINED THEN data.phone ELSE m.phone
        hasEmail == newEmail # NULL /\ Trim(newEmail) # ""
        hasPhone == newPhone # NULL /\ Trim(newPhone) # ""
        newStatus == IF hasEmail \/ hasPhone THEN ACTIVE ELSE NO_IDENTIFIER
    IN  [m EXCEPT !.email = IF data.email # UNDEFINED THEN data.email ELSE @,
                  !.phone = IF data.phone # UNDEFINED THEN data.phone ELSE @,
                  !.firstName = IF data.firstName # UNDEFINED THEN data.firstName ELSE @,
                  !.lastName = IF data.lastName # UNDEFINED THEN data.lastName ELSE @,
                  !.status = newStatus,
                  !.updatedAt = today]

----------------------------------------------------------------------------
(* Purchase removal: POST /api/purchases/upload *)

\* the audience ids stored when no request has created one: client 1 has an
\* audience, client 2 has none
StoredAudiences == [c \in Clients |-> IF c = 1 THEN "aud-1" ELSE NULL]

\* no request is in flight
NoRequests == <<>>

\* clients.metaAudienceId
metaAudienceId(clientId) == audiences[clientId]

\* findAudienceMatch: the ids the two findFirst queries can return, 0 for null
findAudienceMatch(M, record, clientId) ==
    LET emailMatch == IF Truthy(record.email)
                      THEN EmailNameMatches(M, record, clientId) ELSE {}
        phoneMatch == IF Truthy(record.phone)
                      THEN PhoneNameMatches(M, record, clientId) ELSE {}
    IN  IF emailMatch # {} THEN emailMatch
        ELSE IF phoneMatch # {} THEN phoneMatch
        ELSE {0}

\* the matching loop of POST: the possible lists matchedRecords
RECURSIVE MatchedRecords(_, _, _, _, _)
MatchedRecords(L, M, records, i, clientId) ==
    IF i > Len(records) THEN L
    ELSE MatchedRecords(
            {IF id = 0 THEN l ELSE Append(l, [audienceMemberId |-> id, record |-> records[i]])
             : l \in L, id \in findAudienceMatch(M, records[i], clientId)},
            M, records, i + 1, clientId)

\* the deletion loop of POST: a delete of a row that is gone throws and is skipped
RECURSIVE DeleteMatched(_, _, _)
DeleteMatched(st, matched, k) ==
    IF k > Len(matched) THEN st
    ELSE LET id == matched[k].audienceMemberId
         IN  DeleteMatched(
                IF id \in DOMAIN st.M
                THEN [M |-> [j \in DOMAIN st.M \ {id} |-> st.M[j]],
                      removedFromAudience |-> st.removedFromAudience + 1]
                ELSE st,
                matched, k + 1)

\* formatAudienceData without the test that skips a member
formatAudienceDataKeepsAll(ms) ==
    [k \in DOMAIN ms |->
        [EMAIL |-> Truthy(ms[k].email), PHONE |-> Truthy(ms[k].phone),
         FN |-> Truthy(ms[k].firstName), LN |-> Truthy(ms[k].lastName)]]

\* formatAudienceData: the members that have an email or a phone, each with the
\* keys it gets (TRUE: the key holds a hash; uploadBatch sends '' for a missing key)
formatAudienceData(ms) ==
    LET keep == SelectSeq(ms, LAMBDA m : Truthy(m.email) \/ Truthy(m.phone))
    IN  [k \in DOMAIN keep |->
            [EMAIL |-> Truthy(keep[k].email), PHONE |-> Truthy(keep[k].phone),
             FN |-> Truthy(keep[k].firstName), LN |-> Truthy(keep[k].lastName)]]

\* the meta_sync_log row of the purchase upload with status 'completed' in the
\* catch branch too
RemoveLogAlwaysCompleted(clientId, total, ok) ==
    [clientId |-> clientId, audienceId |-> metaAudienceId(clientId), syncType |-> "remove",
     status |-> "completed",
     recordsTotal |-> total,
     recordsSuccess |-> IF ok THEN total ELSE 0,
     recordsFailed |-> IF ok THEN 0 ELSE total]

\* the meta_sync_log row of the purchase upload
RemoveLog(clientId, total, ok) ==
    [clientId |-> clientId, audienceId |-> metaAudienceId(clientId), syncType |-> "remove",
     status |-> IF ok THEN "completed" ELSE "failed",
     recordsTotal |-> total,
     recordsSuccess |-> IF ok THEN total ELSE 0,
     recordsFailed |-> IF ok THEN 0 ELSE total]

----------------------------------------------------------------------------
(* Upload to the remote platform: lib/meta-api.ts *)

\* what the remote platform answers to one call
OK == "ok"
RATE_LIMIT == "rate limit"
REMOTE_ERROR == "error"

\* the answers to the attempts 1..MAX_RETRIES of one batch, up to the attempt that
\* decides the batch (the later answers are never asked for)
AttemptPlans ==
    { <<OK, OK, OK>>, <<RATE_LIMIT, OK, OK>>, <<RATE_LIMIT, RATE_LIMIT, OK>>,
      <<REMOTE_ERROR, OK, OK>>, <<RATE_LIMIT, REMOTE_ERROR, OK>>,
      <<RATE_LIMIT, RATE_LIMIT, REMOTE_ERROR>>,
      <<RATE_LIMIT, RATE_LIMIT, RATE_LIMIT>> }

\* number of batches of a list of n records
BatchCount(n) == (n + META_BATCH_SIZE - 1) \div META_BATCH_SIZE

\* slices that start one row early from the second batch on
MetaBatchOverlapping(data, b) ==
    SubSeq(data, IF b = 1 THEN 1 ELSE (b - 1) * META_BATCH_SIZE,
           Min(b * META_BATCH_SIZE, Len(data)))

\* data.slice(i, i + BATCH_SIZE) for batch number b
MetaBatch(data, b) ==
    SubSeq(data, (b - 1) * META_BATCH_SIZE + 1, Min(b * META_BATCH_SIZE, Len(data)))

\* a sleep after every failed attempt, whatever the error
BackoffAfterEveryError(attempt, answer) ==
    IF answer # OK
    THEN INITIAL_BACKOFF_MS * 2 ^ (attempt - 1)
    ELSE 0

\* the milliseconds slept after an attempt: only after a rate limit answer to an
\* attempt that is not the last
Backoff(attempt, answer) ==
    IF attempt < MAX_RETRIES /\ answer = RATE_LIMIT
    THEN INITIAL_BACKOFF_MS * 2 ^ (attempt - 1)
    ELSE 0

\* one remote call, as the trace of an upload keeps it, with the sleep after it
RemoteCall(b, attempt, batch, answer) ==
    [batch |-> b, attempt |-> attempt, rows |-> batch, answer |-> answer,
     waited |-> Backoff(attempt, answer)]

\* the retry loop that gives up one attempt early
RECURSIVE RetryLoopGivesUpEarly(_, _, _, _, _)
RetryLoopGivesUpEarly(b, batch, plan, attempt, calls) ==
    LET answer == plan[attempt]
        made == Append(calls, RemoteCall(b, attempt, batch, answer))
    IN  IF answer = OK THEN [calls |-> made, lastError |-> FALSE]
        ELSE IF attempt < MAX_RETRIES - 1 /\ answer = RATE_LIMIT
        THEN RetryLoopGivesUpEarly(b, batch, plan, attempt + 1, made)
        ELSE [calls |-> made, lastError |-> TRUE]

\* the retry loop with a retry after every error, rate limit or not
RECURSIVE RetryLoopRetriesEveryError(_, _, _, _, _)
RetryLoopRetriesEveryError(b, batch, plan, attempt, calls) ==
    LET answer == plan[attempt]
        made == Append(calls, RemoteCall(b, attempt, batch, answer))
    IN  IF answer = OK THEN [calls |-> made, lastError |-> FALSE]
        ELSE IF attempt < MAX_RETRIES
        THEN RetryLoopRetriesEveryError(b, batch, plan, attempt + 1, made)
        ELSE [calls |-> made, lastError |-> TRUE]

\* the retry loop of uploadToCustomerList for batch b: the calls made and whether
\* lastError is set when the loop ends
RECURSIVE RetryLoop(_, _, _, _, _)
RetryLoop(b, batch, plan, attempt, calls) ==
    LET answer == plan[attempt]
        made == Append(calls, RemoteCall(b, attempt, batch, answer))
    IN  IF answer = OK THEN [calls |-> made, lastError |-> FALSE]
        ELSE IF attempt < MAX_RETRIES /\ answer = RATE_LIMIT
        THEN RetryLoop(b, batch, plan, attempt + 1, made)
        ELSE [calls |-> made, lastError |-> TRUE]

\* the batch loop of uploadToCustomerList from batch b on
RECURSIVE BatchLoop(_, _, _, _, _)
BatchLoop(data, remote, b, totalUploaded, calls) ==
    IF b > BatchCount(Len(data))
    THEN [threw |-> FALSE, recordsUploaded |-> totalUploaded, failedBatch |-> 0,
          calls |-> calls]
    ELSE LET batch == MetaBatch(data, b)
             r == RetryLoop(b, batch, remote[b], 1, calls)
         IN  IF r.lastError
             THEN [threw |-> TRUE, recordsUploaded |-> 0, failedBatch |-> b,
                   calls |-> r.calls]
             ELSE BatchLoop(data, remote, b + 1, totalUploaded + Len(batch), r.calls)

\* uploadToCustomerList: returns recordsUploaded, or throws
\* 'Failed to upload batch b: ...' (threw, failedBatch); calls is the trace of
\* the remote calls it made
uploadToCustomerList(data, remote) ==
    IF Len(data) = 0
    THEN [threw |-> FALSE, recordsUploaded |-> 0, failedBatch |-> 0, calls |-> <<>>]
    ELSE BatchLoop(data, remote, 1, 0, <<>>)

\* removeFromCustomerList: one remote call for the whole list, no retry
removeFromCustomerList(data, remoteOk) ==
    IF Len(data) = 0
    THEN [threw |-> FALSE, recordsUploaded |-> 0, calls |-> <<>>]
    ELSE [threw |-> ~remoteOk,
          recordsUploaded |-> IF remoteOk THEN Len(data) ELSE 0,
          calls |-> <<RemoteCall(1, 1, data, IF remoteOk THEN OK ELSE REMOTE_ERROR)>>]

----------------------------------------------------------------------------
(* The daily job: GET /api/cron/daily *)

\* Step 1 without the where-clause: every row is decremented
DecrementDaysEveryRow(M, today, updatedAtAuto) ==
    [id \in DOMAIN M |->
        [M[id] EXCEPT !.daysRemaining = @ - 1,
                      !.updatedAt = IF updatedAtAuto THEN today ELSE @]]

\* Step 1: updateMany decrements daysRemaining where it is greater than 0.
\* The column updatedAt is NOT NULL without a default (migration.sql:30) and no
\* create supplies it, so the Prisma schema, which is not among the sources,
\* fills it; updatedAtAuto says whether it does so with @updatedAt, which also
\* sets the column on every row an updateMany touches
DecrementDays(M, today, updatedAtAuto) ==
    [id \in DOMAIN M |->
        IF M[id].daysRemaining > 0
        THEN [M[id] EXCEPT !.daysRemaining = @ - 1,
                           !.updatedAt = IF updatedAtAuto THEN today ELSE @]
        ELSE M[id]]

\* Step 2 with the where-clause daysRemaining < 0
DeleteExpiredBelowZero(M) ==
    [id \in {j \in DOMAIN M : M[j].daysRemaining >= 0} |-> M[id]]

\* Step 2: deleteMany removes the rows with daysRemaining <= 0
DeleteExpired(M) ==
    [id \in {j \in DOMAIN M : M[j].daysRemaining > 0} |-> M[id]]

\* the outcome of downloadLatestCSV and parseCSV: the download threw, the parser
\* threw, or the parsed records
NoFile == [records |-> <<>>, found |-> FALSE, parsed |-> FALSE]

Unparseable == [records |-> <<>>, found |-> TRUE, parsed |-> FALSE]

Downloaded(records) == [records |-> records, found |-> TRUE, parsed |-> TRUE]

\* the findMany of Step 4 and of POST /api/meta/sync: the tenant's rows with
\* daysRemaining > 0, in the order of their ids (only their number and their
\* division into batches reach the state, so one order stands for all); every id
\* is below nid
SyncMembers(M, nid, clientId) ==
    LET ids == SelectSeq([i \in 1..(nid - 1) |-> i],
                         LAMBDA i : /\ i \in DOMAIN M
                                    /\ M[i].clientId = clientId
                                    /\ M[i].daysRemaining > 0)
    IN  [k \in DOMAIN ids |-> M[ids[k]]]

\* the meta_sync_log row of the daily job
AddLog(clientId, total) ==
    [clientId |-> clientId, audienceId |-> metaAudienceId(clientId), syncType |-> "add",
     status |-> "completed",
     recordsTotal |-> total,
     recordsSuccess |-> total,
     recordsFailed |-> 0]

\* a file_processing_log row; history holds every status the row has had, in order
FileLog(clientId, fileName, statuses, total, result) ==
    [clientId |-> clientId, fileName |-> fileName,
     status |-> statuses[Len(statuses)],
     recordsTotal |-> total,
     recordsNew |-> result.newRecords,
     recordsUpdated |-> result.updated,
     recordsSkipped |-> result.duplicates - result.updated,
     history |-> statuses]

\* a step of the daily job, as its trace keeps it
Step(name, clientId) == [step |-> name, clientId |-> clientId]

\* the state of the daily job when the loop of Step 4 starts on the table M
CronStart(M, nid, sLogs, fLogs, trace) ==
    [M |-> M, nextId |-> nid, syncLogs |-> sLogs, fileLogs |-> fLogs,
     totalRecordsAdded |-> 0, totalRecordsSynced |-> 0,
     errors |-> <<>>, clientResults |-> <<>>, trace |-> trace, calls |-> <<>>]

\* first half of Step 4 for one client: download, parse, processRecords and the
\* file_processing_log row; any throw is caught and recorded as an SFTP error
CronIngest(st, clientId, download, today, dflt) ==
    IF ~download.found \/ ~download.parsed
    THEN {[st EXCEPT !.errors = Append(@, [clientId |-> clientId, kind |-> "SFTP"]),
                     !.trace = Append(@, Step("fetch", clientId))]}
    ELSE {[st EXCEPT !.M = out.M,
                     !.nextId = out.nextId,
                     !.fileLogs = Append(@, FileLog(clientId, SourceFileAt(today),
                                                    <<"completed">>,
                                                    Len(download.records), out.result)),
                     !.totalRecordsAdded = @ + out.result.newRecords,
                     !.trace = @ \o <<Step("fetch", clientId), Step("reconcile", clientId)>>]
          : out \in processRecords(st.M, st.nextId, download.records, clientId,
                                   SourceFileAt(today), today, dflt, {})}

\* second half of Step 4 for one client: the upload of the tenant's audience when
\* the client has an audience id; a throw of uploadToCustomerList is caught and
\* makes the client's result 'failed'
CronSync(st, clientId, recordsAdded, remote) ==
    LET audienceMembers == SyncMembers(st.M, st.nextId, clientId)
        formattedData == formatAudienceData(audienceMembers)
        up == uploadToCustomerList(formattedData, remote)
        result(synced, status) ==
            [clientId |-> clientId, recordsAdded |-> recordsAdded,
             recordsSynced |-> synced, status |-> status]
    IN  IF metaAudienceId(clientId) = NULL
        THEN [st EXCEPT !.clientResults = Append(@, result(0, "success"))]
        ELSE IF Len(audienceMembers) = 0
        THEN [st EXCEPT !.clientResults = Append(@, result(0, "success")),
                        !.trace = Append(@, Step("sync", clientId))]
        ELSE IF up.threw
        THEN [st EXCEPT !.clientResults = Append(@, result(0, "failed")),
                        !.errors = Append(@, [clientId |-> clientId, kind |-> "Meta sync"]),
                        !.trace = Append(@, Step("sync", clientId)),
                        !.calls = @ \o up.calls]
        ELSE [st EXCEPT !.clientResults = Append(@, result(up.recordsUploaded, "success")),
                        !.syncLogs = Append(@, AddLog(clientId, Len(formattedData))),
                        !.totalRecordsSynced = @ + up.recordsUploaded,
                        !.trace = Append(@, Step("sync", clientId)),
                        !.calls = @ \o up.calls]

\* Step 4 for one client
CronClient(st, clientId, download, remote, today, dflt) ==
    {CronSync(g, clientId, g.totalRecordsAdded - st.totalRecordsAdded, remote)
     : g \in CronIngest(st, clientId, download, today, dflt)}

\* the loop of Step 4 with a break after the first client that recorded an error
RECURSIVE CronLoopStopsAtFailure(_, _, _, _, _, _, _)
CronLoopStopsAtFailure(S, activeClients, k, downloads, remotes, today, dflt) ==
    IF k > Len(activeClients) \/ \E st \in S : st.errors # <<>> THEN S
    ELSE CronLoopStopsAtFailure(
            UNION {CronClient(st, activeClients[k], downloads[activeClients[k]],
                              remotes[activeClients[k]], today, dflt) : st \in S},
            activeClients, k + 1, downloads, remotes, today, dflt)

\* the loop of Step 4 over the active clients in the order findMany returned them
RECURSIVE CronLoop(_, _, _, _, _, _, _)
CronLoop(S, activeClients, k, downloads, remotes, today, dflt) ==
    IF k > Len(activeClients) THEN S
    ELSE CronLoop(
            UNION {CronClient(st, activeClients[k], downloads[activeClients[k]],
                              remotes[activeClients[k]], today, dflt) : st \in S},
            activeClients, k + 1, downloads, remotes, today, dflt)

\* the orders in which findMany can return the active clients
ClientOrders == {<<1, 2>>, <<2, 1>>}

\* which of the two lifecycle statements throws, if any
LifecycleOutcomes == {"ok", "decrement fails", "expire fails"}

----------------------------------------------------------------------------
(* State machine *)

NoOp == [kind |-> "init"]

Init ==
    /\ members = <<>>
    /\ nextId = 1
    /\ now = 1
    /\ audiences = StoredAudiences
    /\ requests = NoRequests
    /\ statusDefault \in {ACTIVE, NO_IDENTIFIER}
    /\ syncLogs = <<>>
    /\ fileLogs = <<>>
    /\ last = NoOp

\* a bulk ingestion (scheduled, on-demand or manual upload) calls processRecords;
\* rerun: the operation before it was a run of the same file for the same tenant
\* in which no write failed
ProcessRecords(clientId, records, fail) ==
    /\ now <= MaxOps
    /\ \E out \in processRecords(members, nextId, records, clientId,
                                 SourceFileAt(now), now, statusDefault, fail) :
          /\ members' = out.M
          /\ nextId' = out.nextId
          /\ last' = [kind |-> "bulk", clientId |-> clientId, records |-> records,
                      fail |-> fail, today |-> now, result |-> out.result,
                      rows |-> out.rows,
                      rerun |-> /\ last.kind = "bulk"
                                /\ last.clientId = clientId
                                /\ last.records = records
                                /\ last.fail = {}]
    /\ now' = now + 1
    /\ UNCHANGED <<audiences, requests>>
    /\ UNCHANGED <<statusDefault, fileLogs, syncLogs>>

\* processRecords for a clientId without a row in clients: throws before any write
ProcessRecordsUnknownClient(records) ==
    /\ now <= MaxOps
    /\ last' = [kind |-> "bulk-rejected", clientId |-> UnknownClient, records |-> records]
    /\ now' = now + 1
    /\ UNCHANGED <<audiences, requests>>
    /\ UNCHANGED <<members, nextId, statusDefault, fileLogs, syncLogs>>

\* batchProcessWithMatch in mode 'append' or 'update'
BatchProcessWithMatch(clientId, records, mode, fail) ==
    /\ now <= MaxOps
    /\ \E out \in batchProcessWithMatch(members, nextId, records, mode, clientId,
                                        SourceFileAt(now), now, fail) :
          /\ members' = out.M
          /\ nextId' = out.nextId
          /\ last' = [kind |-> "match-append", clientId |-> clientId, records |-> records,
                      mode |-> mode, fail |-> fail, today |-> now, result |-> out.result]
    /\ now' = now + 1
    /\ UNCHANGED <<audiences, requests>>
    /\ UNCHANGED <<statusDefault, fileLogs, syncLogs>>

\* PATCH /api/audience/[id] with a valid body
PatchAudienceMember(id, data) ==
    /\ now <= MaxOps
    /\ IF id \in DOMAIN members
       THEN members' = [members EXCEPT ![id] = PatchedMember(@, data, now)]
       ELSE members' = members
    /\ last' = [kind |-> "patch", id |-> id, data |-> data, today |-> now,
                found |-> id \in DOMAIN members]
    /\ now' = now + 1
    /\ UNCHANGED <<audiences, requests>>
    /\ UNCHANGED <<nextId, statusDefault, fileLogs, syncLogs>>

\* POST /api/purchases/upload for an existing client and a parseable file;
\* remoteOk is the outcome of the remote delete call, when one is made
PurchaseUpload(clientId, records, remoteOk) ==
    /\ now <= MaxOps
    /\ IF metaAudienceId(clientId) = NULL
       THEN /\ last' = [kind |-> "purchase-rejected", clientId |-> clientId]
            /\ UNCHANGED <<members, syncLogs>>
       ELSE \E matched \in MatchedRecords({<<>>}, members, records, 1, clientId) :
               LET done == DeleteMatched([M |-> members, removedFromAudience |-> 0],
                                         matched, 1)
                   formattedData ==
                       formatAudienceData([k \in DOMAIN matched |-> matched[k].record])
                   called == Len(matched) > 0 /\ Len(formattedData) > 0
                   removal == removeFromCustomerList(formattedData, remoteOk)
               IN  /\ members' = done.M
                   /\ syncLogs' = IF called
                                  THEN Append(syncLogs,
                                              RemoveLog(clientId, Len(formattedData), remoteOk))
                                  ELSE syncLogs
                   /\ last' = [kind |-> "purchase", clientId |-> clientId,
                               records |-> records, matched |-> matched,
                               called |-> called, remoteOk |-> remoteOk,
                               calls |-> IF called THEN removal.calls ELSE <<>>,
                               success |-> TRUE,
                               removedFromAudience |-> done.removedFromAudience,
                               removedFromMeta |-> IF called /\ remoteOk
                                                   THEN Len(formattedData) ELSE 0]
    /\ now' = now + 1
    /\ UNCHANGED <<audiences, requests>>
    /\ UNCHANGED <<nextId, statusDefault, fileLogs>>

\* the meta_sync_log row of POST /api/meta/sync; history holds every status the
\* row has had, in order
SyncLog(clientId, statuses, total, success, failed) ==
    [clientId |-> clientId, audienceId |-> metaAudienceId(clientId), syncType |-> "add",
     status |-> statuses[Len(statuses)],
     recordsTotal |-> total,
     recordsSuccess |-> success,
     recordsFailed |-> failed,
     history |-> statuses]

\* POST /api/meta/sync for an active client that has an audience id; remote[b] is
\* what the remote platform answers to the attempts of batch b. The 500 response
\* is {success: false, error}: it carries no count, recordsSynced is 0 then
MetaSync(clientId, remote) ==
    /\ now <= MaxOps
    /\ metaAudienceId(clientId) # NULL
    /\ LET audienceMembers == SyncMembers(members, nextId, clientId)
           formattedData == formatAudienceData(audienceMembers)
           up == uploadToCustomerList(formattedData, remote)
           inputs == [kind |-> "sync", clientId |-> clientId, remote |-> remote,
                      today |-> now, eligible |-> Len(audienceMembers),
                      formatted |-> Len(formattedData)]
       IN  IF Len(audienceMembers) = 0
           THEN /\ syncLogs' = Append(syncLogs,
                                      SyncLog(clientId, <<"processing", "completed">>,
                                              0, 0, 0))
                /\ last' = inputs @@ [httpStatus |-> 200, success |-> TRUE,
                                      recordsSynced |-> 0, failedBatch |-> 0,
                                      calls |-> <<>>]
           ELSE IF up.threw
           THEN /\ syncLogs' = Append(syncLogs,
                                      SyncLog(clientId, <<"processing", "failed">>,
                                              Len(audienceMembers), 0,
                                              Len(formattedData)))
                /\ last' = inputs @@ [httpStatus |-> 500, success |-> FALSE,
                                      recordsSynced |-> 0,
                                      failedBatch |-> up.failedBatch,
                                      calls |-> up.calls]
           ELSE /\ syncLogs' = Append(syncLogs,
                                      SyncLog(clientId, <<"processing", "completed">>,
                                              Len(audienceMembers), up.recordsUploaded,
                                              Len(formattedData) - up.recordsUploaded))
                /\ last' = inputs @@ [httpStatus |-> 200, success |-> TRUE,
                                      recordsSynced |-> up.recordsUploaded,
                                      failedBatch |-> 0,
                                      calls |-> up.calls]
    /\ now' = now + 1
    /\ UNCHANGED <<audiences, requests>>
    /\ UNCHANGED <<members, nextId, statusDefault, fileLogs>>

\* the file name that a manual upload logs and hands to processRecords
ManualFileAt(n) == "MANUAL_UPLOAD: " \o SourceFileAt(n)

\* the response and the log row of an ingestion request, as last keeps them
Ingested(kind, clientId, file, today, httpStatus, result) ==
    [kind |-> kind, clientId |-> clientId, file |-> file, today |-> today,
     httpStatus |-> httpStatus, success |-> httpStatus = 200, result |-> result]

\* POST /api/process for an active client: the on-demand run of the SFTP file.
\* A failed download writes its log row in status 'failed' at once; otherwise the
\* row is created in status 'processing' and updated once
ProcessOnDemand(clientId, download) ==
    /\ now <= MaxOps
    /\ IF ~download.found
       THEN /\ fileLogs' = Append(fileLogs,
                                  FileLog(clientId, "unknown", <<"failed">>, 0, EmptyResult))
            /\ last' = Ingested("process", clientId, download, now, 500, EmptyResult)
            /\ UNCHANGED <<members, nextId>>
       ELSE IF ~download.parsed
       THEN /\ fileLogs' = Append(fileLogs,
                                  FileLog(clientId, SourceFileAt(now),
                                          <<"processing", "failed">>, 0, EmptyResult))
            /\ last' = Ingested("process", clientId, download, now, 400, EmptyResult)
            /\ UNCHANGED <<members, nextId>>
       ELSE \E out \in processRecords(members, nextId, download.records, clientId,
                                      SourceFileAt(now), now, statusDefault, {}) :
               /\ members' = out.M
               /\ nextId' = out.nextId
               /\ fileLogs' = Append(fileLogs,
                                     FileLog(clientId, SourceFileAt(now),
                                             <<"processing", "completed">>,
                                             Len(download.records), out.result))
               /\ last' = Ingested("process", clientId, download, now, 200, out.result)
    /\ now' = now + 1
    /\ UNCHANGED <<audiences, requests>>
    /\ UNCHANGED <<statusDefault, syncLogs>>

\* POST /api/audience/upload for an active client and a valid form: the manual
\* upload of a file. The log row is created in status 'processing' before the
\* file is parsed and updated once
ManualUpload(clientId, upload) ==
    /\ now <= MaxOps
    /\ upload.found
    /\ IF ~upload.parsed
       THEN /\ fileLogs' = Append(fileLogs,
                                  FileLog(clientId, ManualFileAt(now),
                                          <<"processing", "failed">>, 0, EmptyResult))
            /\ last' = Ingested("manual", clientId, upload, now, 400, EmptyResult)
            /\ UNCHANGED <<members, nextId>>
       ELSE IF Len(upload.records) = 0
       THEN /\ fileLogs' = Append(fileLogs,
                                  FileLog(clientId, ManualFileAt(now),
                                          <<"processing", "completed">>, 0, EmptyResult))
            /\ last' = Ingested("manual", clientId, upload, now, 200, EmptyResult)
            /\ UNCHANGED <<members, nextId>>
       ELSE \E out \in processRecords(members, nextId, upload.records, clientId,
                                      ManualFileAt(now), now, statusDefault, {}) :
               /\ members' = out.M
               /\ nextId' = out.nextId
               /\ fileLogs' = Append(fileLogs,
                                     FileLog(clientId, ManualFileAt(now),
                                             <<"processing", "completed">>,
                                             Len(upload.records), out.result))
               /\ last' = Ingested("manual", clientId, upload, now, 200, out.result)
    /\ now' = now + 1
    /\ UNCHANGED <<audiences, requests>>
    /\ UNCHANGED <<statusDefault, syncLogs>>

\* Steps 1 and 2 without the check that both completed
LifecycleIgnoresFailure(M, lifecycle, today, updatedAtAuto) ==
    LET decremented == IF lifecycle = "decrement fails" THEN M
                       ELSE DecrementDays(M, today, updatedAtAuto)
        aged == IF lifecycle = "ok" THEN DeleteExpired(decremented) ELSE decremented
    IN  [completed |-> TRUE,
         afterDecrement |-> decremented,
         afterExpire |-> aged,
         trace |-> IF lifecycle = "decrement fails"
                   THEN <<Step("decrement", 0)>>
                   ELSE <<Step("decrement", 0), Step("expire", 0)>>]

\* Steps 1 and 2 of the daily job on the table M: the table after each statement
\* that ran, and whether both completed; a statement that throws changes nothing
\* and ends the job in the outer catch
Lifecycle(M, lifecycle, today, updatedAtAuto) ==
    LET decremented == IF lifecycle = "decrement fails" THEN M
                       ELSE DecrementDays(M, today, updatedAtAuto)
        aged == IF lifecycle = "ok" THEN DeleteExpired(decremented) ELSE decremented
    IN  [completed |-> lifecycle = "ok",
         afterDecrement |-> decremented,
         afterExpire |-> aged,
         trace |-> IF lifecycle = "decrement fails"
                   THEN <<Step("decrement", 0)>>
                   ELSE <<Step("decrement", 0), Step("expire", 0)>>]

\* the daily job, as GET /api/cron/daily and GET /api/cron/test both run it:
\* lifecycle says which of Step 1 and Step 2 throws, downloads[c] is the download
\* of client c, remotes[c] the answers of the remote platform to the upload for
\* client c, and scheduled counts the runs of GET /api/cron/daily in an unbroken
\* series of jobs
CronBody(kind, lifecycle, updatedAtAuto, activeClients, downloads, remotes) ==
    /\ LET lc == Lifecycle(members, lifecycle, now, updatedAtAuto)
           inputs == [kind |-> kind, today |-> now, lifecycle |-> lifecycle,
                      scheduled |-> (IF "scheduled" \in DOMAIN last
                                     THEN last.scheduled ELSE 0)
                                    + (IF kind = "cron" THEN 1 ELSE 0),
                      updatedAtAuto |-> updatedAtAuto,
                      activeClients |-> activeClients, downloads |-> downloads,
                      remotes |-> remotes, before |-> members,
                      afterDecrement |-> lc.afterDecrement,
                      afterExpire |-> lc.afterExpire]
       IN  IF ~lc.completed
           THEN /\ members' = lc.afterExpire
                /\ last' = inputs @@
                      [httpStatus |-> 500, expiredMembers |-> 0, clientsProcessed |-> 0,
                       totalRecordsAdded |-> 0, totalRecordsSynced |-> 0,
                       clientResults |-> <<>>, errors |-> <<>>,
                       trace |-> lc.trace, calls |-> <<>>]
                /\ UNCHANGED <<nextId, syncLogs, fileLogs>>
           ELSE \E out \in CronLoop({CronStart(lc.afterExpire, nextId, syncLogs, fileLogs,
                                               lc.trace)},
                                    activeClients, 1, downloads, remotes, now,
                                    statusDefault) :
                   /\ members' = out.M
                   /\ nextId' = out.nextId
                   /\ syncLogs' = out.syncLogs
                   /\ fileLogs' = out.fileLogs
                   /\ last' = inputs @@
                         [httpStatus |-> 200,
                          expiredMembers |-> Cardinality(DOMAIN lc.afterDecrement)
                                             - Cardinality(DOMAIN lc.afterExpire),
                          clientsProcessed |-> Len(activeClients),
                          totalRecordsAdded |-> out.totalRecordsAdded,
                          totalRecordsSynced |-> out.totalRecordsSynced,
                          clientResults |-> out.clientResults,
                          errors |-> out.errors,
                          trace |-> out.trace,
                          calls |-> out.calls]
    /\ now' = now + 1
    /\ UNCHANGED <<audiences, requests>>
    /\ UNCHANGED statusDefault

\* the daily job within the horizon of the model
CronJob(kind, lifecycle, updatedAtAuto, activeClients, downloads, remotes) ==
    /\ now <= MaxOps
    /\ CronBody(kind, lifecycle, updatedAtAuto, activeClients, downloads, remotes)

\* GET /api/cron/daily with a valid secret
DailyCron(lifecycle, updatedAtAuto, activeClients, downloads, remotes) ==
    CronJob("cron", lifecycle, updatedAtAuto, activeClients, downloads, remotes)

\* GET /api/cron/test with a session: the same statements as the daily job
CronTest(lifecycle, updatedAtAuto, activeClients, downloads, remotes) ==
    CronJob("cron-test", lifecycle, updatedAtAuto, activeClients, downloads, remotes)

Next ==
    \/ \E c \in Clients, f \in Files({John, Anon}), fail \in FailChoices :
          ProcessRecords(c, f, fail)
    \/ \E f \in Files({John, Anon}) : ProcessRecordsUnknownClient(f)
    \/ \E c \in Clients, f \in Files({John, Anon}), mode \in {"append", "update"} :
          BatchProcessWithMatch(c, f, mode, {})
    \/ \E id \in DOMAIN members \cup {nextId}, data \in PatchBodies :
          PatchAudienceMember(id, data)
    \/ \E c \in Clients, f \in Files({John, Anon}), remoteOk \in BOOLEAN :
          PurchaseUpload(c, f, remoteOk)
    \/ \E order \in ClientOrders, downloads \in [Clients -> {NoFile, Downloaded(<<John>>)}],
          plan \in {<<OK, OK, OK>>, <<REMOTE_ERROR, OK, OK>>},
          updatedAtAuto \in BOOLEAN :
          DailyCron("ok", updatedAtAuto, order, downloads, [c \in Clients |-> <<plan>>])

Spec == Init /\ [][Next]_vars

----------------------------------------------------------------------------
(* The two matchers applied on their own to a stored table *)

\* the contacts stored before a matcher is applied
StoredContacts ==
    { Contact("John", "Doe", "a@x.com", NULL),
      Contact("john", "Doe", "b@x.com", "15551"),
      Contact("", "Doe", "A@X.COM", NULL),
      Contact("", "Doe", "b@x.com", "15551"),
      Contact("Jane", "Doe", "a@x.com", NULL) }

\* the tables that hold up to MaxStored of these contacts, created at time 0
StoredTables ==
    {[id \in DOMAIN cs |-> NewMember(cs[id], 1, SourceFileAt(0), 0,
                                     getRecordStatus(cs[id].email, cs[id].phone))]
     : cs \in SeqsUpTo(StoredContacts, MaxStored)}

InitMatcher ==
    /\ members \in StoredTables
    /\ nextId = Len(members) + 1
    /\ now = 1
    /\ audiences = StoredAudiences
    /\ requests = NoRequests
    /\ statusDefault = ACTIVE
    /\ syncLogs = <<>>
    /\ fileLogs = <<>>
    /\ last = NoOp

\* one call of deduplicateRecord
DeduplicateRecord(clientId, record) ==
    /\ now <= MaxOps
    /\ \E r \in deduplicateRecord(members, record, clientId) :
          last' = [kind |-> "deduplicateRecord", clientId |-> clientId,
                   record |-> record, result |-> r]
    /\ now' = now + 1
    /\ UNCHANGED <<audiences, requests>>
    /\ UNCHANGED <<members, nextId, statusDefault, fileLogs, syncLogs>>

\* one call of findMatchingRecord
FindMatchingRecord(clientId, record) ==
    /\ now <= MaxOps
    /\ \E r \in findMatchingRecord(members, record, clientId) :
          last' = [kind |-> "findMatchingRecord", clientId |-> clientId,
                   record |-> record, result |-> r]
    /\ now' = now + 1
    /\ UNCHANGED <<audiences, requests>>
    /\ UNCHANGED <<members, nextId, statusDefault, fileLogs, syncLogs>>

NextMatcher ==
    \/ \E c \in Clients, record \in {John, NoFirst} : DeduplicateRecord(c, record)
    \/ \E c \in Clients, record \in {John, NoFirst} : FindMatchingRecord(c, record)

SpecMatcher == InitMatcher /\ [][NextMatcher]_vars

----------------------------------------------------------------------------
(* C1: first match wins *)

\* the last step applied a matcher to a contact for which one record of the tenant
\* matches on email+names and a different record matches on phone+names
BothStrategiesMatch ==
    /\ last.kind \in {"deduplicateRecord", "findMatchingRecord"}
    /\ \E r1 \in EmailNameMatches(members, last.record, last.clientId) :
          \E r2 \in PhoneNameMatches(members, last.record, last.clientId) : r1 # r2

\* what the last matcher call returned: the matched id and the strategy tag
ReturnedId ==
    IF last.kind = "deduplicateRecord" THEN last.result.audienceMemberId
    ELSE last.result.id

ReturnedTag ==
    IF last.kind = "deduplicateRecord" THEN last.result.matchedOn
    ELSE last.result.matchedBy

\* C1 as stated: whenever a contact has an email+name match and a different
\* phone+name match, deduplicateRecord and findMatchingRecord return an email+name
\* record with the tag 'email+name'.
C1_FirstMatchWins ==
    BothStrategiesMatch =>
        /\ ReturnedTag = "email+name"
        /\ ReturnedId \in EmailNameMatches(members, last.record, last.clientId)

\* C1 amended: deduplicateRecord always returns an email+name record tagged
\* 'email+name'; findMatchingRecord does so when the contact's first and last name
\* are both non-empty, and otherwise returns a record of the tenant with the
\* contact's email, tagged 'email'.
C1_FirstMatchWinsNamed ==
    BothStrategiesMatch =>
        IF \/ last.kind = "deduplicateRecord"
           \/ Truthy(last.record.firstName) /\ Truthy(last.record.lastName)
        THEN /\ ReturnedTag = "email+name"
             /\ ReturnedId \in EmailNameMatches(members, last.record, last.clientId)
        ELSE /\ ReturnedTag = "email"
             /\ ReturnedId \in EmailMatches(members, last.record, last.clientId)

\* findMatchingRecord resolved a named contact, for which one record matches on
\* email+names and another on phone+names, to the email+names record
C1_Witness ==
    /\ BothStrategiesMatch
    /\ last.kind = "findMatchingRecord"
    /\ Truthy(last.record.firstName) /\ Truthy(last.record.lastName)
    /\ ReturnedTag = "email+name"
    /\ ReturnedId \in EmailNameMatches(members, last.record, last.clientId)

----------------------------------------------------------------------------
(* Bulk ingestion and match-append processing of one tenant *)

NextAppend ==
    \/ \E f \in Files({John, JohnByPhone, Jane}), fail \in FailChoices :
          ProcessRecords(1, f, fail)
    \/ \E f \in Files({John, JohnByPhone, Jane}), mode \in {"append", "update"},
           fail \in FailChoices :
          BatchProcessWithMatch(1, f, mode, fail)

SpecAppend == Init /\ [][NextAppend]_vars

----------------------------------------------------------------------------
(* C2: the strategies of bulk ingestion *)

\* no record of the tenant in the table before the step matches the first row of
\* the step's input on email+names or on phone+names
FirstRowHasNoNameMatch ==
    /\ EmailNameMatches(members, last'.records[1], last'.clientId) = {}
    /\ PhoneNameMatches(members, last'.records[1], last'.clientId) = {}

\* the step created a record for the first row of its input
FirstRowCreated ==
    /\ IF last'.kind = "bulk"
       THEN last'.rows[1].dedup.isNew /\ last'.rows[1].written
       ELSE /\ last'.result.results[1].action = "created"
            /\ last'.result.results[1].recordId = nextId
    /\ nextId \in DOMAIN members' \ DOMAIN members
    /\ members'[nextId].clientId = last'.clientId
    /\ members'[nextId].dateAdded = last'.today

\* C2 as stated: in append mode (processRecords, and processRecordWithMatch with
\* mode 'append') a contact without an email+name and without a phone+name match
\* is created as a new record when its write succeeds, whatever else is stored.
C2_AppendTriesTwoStrategies ==
    [][(/\ \/ last'.kind = "bulk"
           \/ last'.kind = "match-append" /\ last'.mode = "append"
        /\ 1 \notin last'.fail
        /\ FirstRowHasNoNameMatch)
       => FirstRowCreated]_vars

\* C2 amended: processRecords tries only the two name-qualified strategies and
\* creates a contact that neither matches, when its write succeeds; match-append
\* processing, in mode 'append' as in mode 'update', creates a contact only when
\* no record of the tenant shares its email or its phone, and in mode 'append'
\* leaves the table as it is for a contact that shares one.
C2_BulkTriesTwoStrategies ==
    [][/\ (last'.kind = "bulk" /\ 1 \notin last'.fail /\ FirstRowHasNoNameMatch)
            => FirstRowCreated
       /\ (last'.kind = "match-append" /\ 1 \notin last'.fail)
            => LET shared == EmailMatches(members, last'.records[1], last'.clientId)
                               \cup PhoneMatches(members, last'.records[1], last'.clientId)
               IN  /\ FirstRowCreated <=> shared = {}
                   /\ (shared # {} /\ last'.mode = "append" /\ Len(last'.records) = 1)
                         => /\ members' = members
                            /\ last'.result.results[1].action = "skipped"
                            /\ last'.result.results[1].recordId \in shared]_vars

\* a bulk run of one row created a record although a record of the tenant stored
\* before the run has the row's email (under other names)
C2_Witness ==
    /\ last.kind = "bulk"
    /\ Len(last.records) = 1
    /\ last.rows[1].dedup.isNew /\ last.rows[1].written
    /\ \E id \in DOMAIN members :
          /\ members[id].dateAdded < last.today
          /\ members[id].clientId = last.clientId
          /\ EqualsInsensitive(members[id].email, last.records[1].email)

----------------------------------------------------------------------------
(* Bulk ingestion of one tenant, row by row *)

NextBulk ==
    \E f \in Files({John, JohnByPhone, JohnMoved, Anon}), fail \in FailChoices :
        ProcessRecords(1, f, fail)

SpecBulk == Init /\ [][NextBulk]_vars

----------------------------------------------------------------------------
(* C3: a second run of the same file *)

\* the last operation was the second of two runs of the same file for the same
\* tenant, and no write failed in either
SecondRun == last.kind = "bulk" /\ last.rerun /\ last.fail = {}

HasIdentifier(record) == Truthy(record.email) \/ Truthy(record.phone)

\* two contacts with the same email or the same phone
SharesIdentifier(r1, r2) ==
    EqualsInsensitive(r1.email, r2.email) \/ EqualsExact(r1.phone, r2.phone)

----------------------------------------------------------------------------
(* C4: re-enrollment *)

\* the row has an email or a phone that is present and not blank
Identified(m) ==
    \/ m.email # NULL /\ Trim(m.email) # ""
    \/ m.phone # NULL /\ Trim(m.phone) # ""

\* C4 as stated: a match-append run or an edit through PATCH that gives a record
\* without email and phone its first identifier leaves it with status ACTIVE,
\* daysRemaining reset to the default and dateAdded set to the time of the operation.
C4_Reenrollment ==
    [][last'.kind \in {"patch", "match-append"}
       => \A id \in DOMAIN members \cap DOMAIN members' :
             (~Identified(members[id]) /\ Identified(members'[id]))
             => /\ members'[id].status = ACTIVE
                /\ members'[id].daysRemaining = DAYS_REMAINING_DEFAULT
                /\ members'[id].dateAdded = last'.today]_vars

----------------------------------------------------------------------------
(* C5: status and identifiers *)

\* C5 as stated: in every reachable state every record has status ACTIVE exactly
\* when its email or its phone is present and not blank, and NO_IDENTIFIER otherwise.
C5_StatusIffIdentifier ==
    \A id \in DOMAIN members :
        /\ members[id].status = ACTIVE <=> Identified(members[id])
        /\ members[id].status = NO_IDENTIFIER <=> ~Identified(members[id])

----------------------------------------------------------------------------
(* Bulk ingestion of one tenant on both paths: a file of one row is processed row
   by row, a file of more than BATCH_SIZE rows in batches *)

NextBatch ==
    \E f \in {<<John>>, <<JohnByPhone>>} \cup LongFiles({John, JohnByPhone}),
       fail \in FailChoices :
        ProcessRecords(1, f, fail)

\* the table after a bulk run stored John at time 0 and one daily job aged the record
AgedTable(dflt) ==
    DecrementDays(Insert(<<>>, 1, NewMember(John, 1, SourceFileAt(0), 0, dflt)), 0, TRUE)

\* the runs start from the empty table or from the aged one
InitBatch ==
    /\ statusDefault \in {ACTIVE, NO_IDENTIFIER}
    /\ \/ members = <<>> /\ nextId = 1
       \/ members = AgedTable(statusDefault) /\ nextId = 2
    /\ now = 1
    /\ audiences = StoredAudiences
    /\ requests = NoRequests
    /\ syncLogs = <<>>
    /\ fileLogs = <<>>
    /\ last = NoOp

SpecBatch == InitBatch /\ [][NextBatch]_vars

----------------------------------------------------------------------------
(* C6: the batched path against the sequential path *)

\* the table as a bag of rows, without the ids
RowsBag(M) ==
    [r \in {M[id] : id \in DOMAIN M} |-> Cardinality({id \in DOMAIN M : M[id] = r})]

\* the logical result of a run: the records it leaves and its counts
Logical(out) ==
    [records |-> RowsBag(out.M),
     created |-> out.result.newRecords,
     updated |-> out.result.updated]

\* C6 as stated: from the store and for the input of any bulk run in which no
\* write fails, processBatchedRecords and processIndividualRecords end with the
\* same records (up to ids) and the same created and updated counts.
C6_BatchedEqualsSequential ==
    [][(last'.kind = "bulk" /\ last'.fail = {})
       => LET batched == processBatchedRecords(members, nextId, last'.records,
                             last'.clientId, SourceFileAt(last'.today), last'.today,
                             statusDefault, {})
              sequential == processIndividualRecords(members, nextId, last'.records,
                                last'.clientId, SourceFileAt(last'.today), last'.today,
                                statusDefault, {})
          IN  {Logical(out) : out \in batched} = {Logical(out) : out \in sequential}]_vars

----------------------------------------------------------------------------
(* C7: rows of one file that match each other *)

\* a record holding the values of r1 would be a match for r2
WouldMatch(r1, r2) ==
    /\ EqualsInsensitive(r1.firstName, r2.firstName)
    /\ EqualsInsensitive(r1.lastName, r2.lastName)
    /\ \/ Truthy(r2.email) /\ EqualsInsensitive(r1.email, r2.email)
       \/ Truthy(r2.phone) /\ EqualsExact(r1.phone, r2.phone)

\* C7 as stated: two rows of one file that would match each other and match no
\* record stored before the run are both created as new records.
C7_RowsNotDeduplicated ==
    [][(last'.kind = "bulk" /\ last'.fail = {})
       => \A i, j \in DOMAIN last'.records :
             (/\ i < j
              /\ WouldMatch(last'.records[i], last'.records[j])
              /\ deduplicateRecord(members, last'.records[i], last'.clientId) = {NoMatch}
              /\ deduplicateRecord(members, last'.records[j], last'.clientId) = {NoMatch})
             => last'.rows[i].dedup.isNew /\ last'.rows[j].dedup.isNew]_vars

----------------------------------------------------------------------------
(* C8: a failing write *)

\* C8 as stated: when the write of row n fails, the errors of the run are the one
\* entry 'Row n: message' and every other row is written.
C8_RowFailureIsLocal ==
    last.kind = "bulk"
    => \A n \in last.fail :
          /\ last.result.errors = <<RowError(n)>>
          /\ \A i \in DOMAIN last.records : i # n => last.rows[i].written

----------------------------------------------------------------------------
(* C9: the update of a matched record *)

\* the rows of the run of this step that matched record id and were written
Hits(id) ==
    {i \in DOMAIN last'.rows :
        /\ last'.rows[i].written
        /\ ~last'.rows[i].dedup.isNew
        /\ last'.rows[i].dedup.audienceMemberId = id}

----------------------------------------------------------------------------
(* C10: tenant scoping *)

\* C10: a bulk run, a match-append run or a purchase upload for a tenant leaves
\* every record of every other tenant in the table and unchanged, and every record
\* it returns as a match is a record of that tenant.
C10_TenantScoped ==
    [][last'.kind \in {"bulk", "match-append", "purchase", "purchase-rejected"}
       => /\ \A id \in DOMAIN members :
                members[id].clientId # last'.clientId
                => id \in DOMAIN members' /\ members'[id] = members[id]
          /\ last'.kind = "bulk"
                => \A i \in DOMAIN last'.rows :
                      ~last'.rows[i].dedup.isNew
                      => members'[last'.rows[i].dedup.audienceMemberId].clientId
                            = last'.clientId
          /\ last'.kind = "match-append"
                => \A k \in DOMAIN last'.result.results :
                      members'[last'.result.results[k].recordId].clientId = last'.clientId
          /\ last'.kind = "purchase"
                => \A k \in DOMAIN last'.matched :
                      /\ last'.matched[k].audienceMemberId \in DOMAIN members
                      /\ members[last'.matched[k].audienceMemberId].clientId
                            = last'.clientId]_vars

\* a bulk run for tenant 1 created a record for a contact although tenant 2 holds a
\* record with the same email, phone and names
C10_Witness ==
    /\ last.kind = "bulk"
    /\ last.clientId = 1
    /\ last.rows[1].dedup.isNew /\ last.rows[1].written
    /\ \E id \in DOMAIN members :
          /\ members[id].clientId = 2
          /\ members[id].dateAdded < last.today
          /\ members[id].email = last.records[1].email
          /\ members[id].phone = last.records[1].phone
          /\ members[id].firstName = last.records[1].firstName
          /\ members[id].lastName = last.records[1].lastName
          /\ Truthy(members[id].email)

----------------------------------------------------------------------------
(* The daily job on tables whose records are about to expire *)

\* records stored by bulk runs at time 0 and aged by the daily jobs since
AgedRows ==
    { [NewMember(John, 1, SourceFileAt(0), 0, ACTIVE) EXCEPT !.daysRemaining = 1],
      [NewMember(John, 1, SourceFileAt(0), 0, ACTIVE) EXCEPT !.daysRemaining = 2],
      [NewMember(Anon, 1, SourceFileAt(0), 0, ACTIVE) EXCEPT !.daysRemaining = 2],
      [NewMember(John, 2, SourceFileAt(0), 0, ACTIVE) EXCEPT !.daysRemaining = 1] }

InitLifecycle ==
    /\ members \in SeqsUpTo(AgedRows, MaxStored)
    /\ nextId = Len(members) + 1
    /\ now = 1
    /\ audiences = StoredAudiences
    /\ requests = NoRequests
    /\ statusDefault = ACTIVE
    /\ syncLogs = <<>>
    /\ fileLogs = <<>>
    /\ last = NoOp

\* the downloads of one daily job
CronDownloads ==
    { [c \in Clients |-> IF c = 1 THEN NoFile ELSE Downloaded(<<John>>)],
      [c \in Clients |-> IF c = 1 THEN Downloaded(<<John>>) ELSE NoFile],
      [c \in Clients |-> Unparseable] }

\* the remote platform answers every call alike
Answering(answer) == [c \in Clients |-> <<<<answer, answer, answer>>>>]

NextLifecycle ==
    \/ \E lifecycle \in {"decrement fails", "expire fails"}, updatedAtAuto \in BOOLEAN :
          DailyCron(lifecycle, updatedAtAuto, <<1, 2>>,
                    [c \in Clients |-> Downloaded(<<John>>)], Answering(OK))
    \/ \E updatedAtAuto \in BOOLEAN, order \in ClientOrders,
          downloads \in CronDownloads, answer \in {OK, REMOTE_ERROR} :
          DailyCron("ok", updatedAtAuto, order, downloads, Answering(answer))

SpecLifecycle == InitLifecycle /\ [][NextLifecycle]_vars

----------------------------------------------------------------------------
(* Uploads of more than one batch: POST /api/meta/sync on a large audience *)

\* the audience of tenant 1 with n records that have identifiers and one that has
\* none, all stored at time 0
LargeAudience(n) ==
    [i \in 1..(n + 1) |->
        NewMember(IF i <= n THEN PadRow(i) ELSE Anon, 1, SourceFileAt(0), 0, ACTIVE)]

\* audiences of exactly one batch, of a batch and a half, and of three batches
SyncSizes ==
    {META_BATCH_SIZE, META_BATCH_SIZE + META_BATCH_SIZE \div 2, 2 * META_BATCH_SIZE + 1}

\* the answers of the remote platform to the batches 1, 2 and 3 of one upload
SyncRemotes ==
    { <<first, later[1], later[2]>> :
        first \in AttemptPlans,
        later \in { <<<<OK, OK, OK>>, <<OK, OK, OK>>>>,
                    <<<<REMOTE_ERROR, OK, OK>>, <<OK, OK, OK>>>>,
                    <<<<OK, OK, OK>>, <<RATE_LIMIT, RATE_LIMIT, RATE_LIMIT>>>> } }

InitSync ==
    /\ \E n \in SyncSizes :
          /\ members = LargeAudience(n)
          /\ nextId = n + 2
    /\ now = 1
    /\ audiences = StoredAudiences
    /\ requests = NoRequests
    /\ statusDefault = ACTIVE
    /\ syncLogs = <<>>
    /\ fileLogs = <<>>
    /\ last = NoOp

NextSync == \E remote \in SyncRemotes : MetaSync(1, remote)

SpecSync == InitSync /\ [][NextSync]_vars

----------------------------------------------------------------------------
(* The three ingestion runs and their file_processing_log rows *)

\* what an ingestion run can get as its file
IngestFiles == {NoFile, Unparseable, Downloaded(<<>>)} \cup {Downloaded(f) : f \in Files({John, Anon})}

NextIngest ==
    \/ \E c \in Clients, download \in IngestFiles : ProcessOnDemand(c, download)
    \/ \E c \in Clients, upload \in IngestFiles : ManualUpload(c, upload)
    \/ \E order \in ClientOrders, downloads \in CronDownloads :
          DailyCron("ok", TRUE, order, downloads, Answering(OK))

SpecIngest == Init /\ [][NextIngest]_vars

\* the positions of the trace that belong to a client
TenantSteps(trace) == {k \in DOMAIN trace : trace[k].clientId # 0}

\* the entries of errors recorded against client c
ErrorsOf(errors, c) == SelectSeq(errors, LAMBDA e : e.clientId = c)

\* the position of client c in the list of active clients
PositionOf(activeClients, c) == CHOOSE k \in DOMAIN activeClients : activeClients[k] = c

\* the fields of a record that Step 1 is not said to write
KeptByDecrement == {"clientId", "firstName", "lastName", "email", "phone", "status",
                    "dateAdded", "sourceFile"}

C12_ExpireAll ==
    [][(last'.kind = "cron" /\ last'.lifecycle = "ok") =>
          LET decremented == last'.afterDecrement
              aged == last'.afterExpire
              gone == {id \in DOMAIN decremented : decremented[id].daysRemaining <= 0}
          IN  /\ DOMAIN aged = DOMAIN decremented \ gone
              /\ \A id \in DOMAIN aged : aged[id] = decremented[id]
              /\ last'.expiredMembers = Cardinality(gone)
              /\ \A id \in DOMAIN members :
                    members[id].daysRemaining = 1 =>
                       /\ decremented[id].daysRemaining = 0
                       /\ id \notin DOMAIN aged
                       /\ id \notin DOMAIN members']_vars

\* a job deleted a record that had one day left and kept another record
C12_Witness ==
    /\ last.kind = "cron"
    /\ last.lifecycle = "ok"
    /\ last.expiredMembers >= 1
    /\ \E i, j \in DOMAIN last.before :
          /\ last.before[i].daysRemaining = 1
          /\ i \notin DOMAIN members
          /\ j \in DOMAIN last.afterExpire
          /\ j \in DOMAIN members

\* C13: each lifecycle operation is idempotent: Step 1 applied to its own result
\* changes nothing, and Step 2 applied to its own result changes nothing.
C13_Idempotent ==
    (last.kind = "cron" /\ last.lifecycle = "ok") =>
       /\ DecrementDays(last.afterDecrement, last.today, last.updatedAtAuto)
             = last.afterDecrement
       /\ DeleteExpired(last.afterExpire) = last.afterExpire

\* C14: in a daily job no client's fetch, reconcile or sync starts unless Step 1 and
\* then Step 2 completed earlier in the same job; when either throws the job ends
\* with status 500, no client processed, no call to the remote platform and no row
\* written by Step 4.
C14_LifecycleFirst ==
    [][last'.kind = "cron" =>
          LET trace == last'.trace
          IN  /\ TenantSteps(trace) # {} =>
                    /\ last'.lifecycle = "ok"
                    /\ Len(trace) >= 2
                    /\ trace[1] = Step("decrement", 0)
                    /\ trace[2] = Step("expire", 0)
                    /\ \A k \in TenantSteps(trace) : k > 2
              /\ last'.lifecycle # "ok" =>
                    /\ TenantSteps(trace) = {}
                    /\ last'.calls = <<>>
                    /\ last'.clientResults = <<>>
                    /\ last'.httpStatus = 500
                    /\ members' = last'.afterExpire
                    /\ last'.afterExpire \in {members, last'.afterDecrement}
                    /\ UNCHANGED <<nextId, syncLogs, fileLogs>>]_vars

\* Step 2 threw after Step 1 had changed the table, with a file waiting for every
\* client: no client was processed
C14_Witness ==
    /\ last.kind = "cron"
    /\ last.lifecycle = "expire fails"
    /\ last.afterDecrement # last.before
    /\ \A c \in Clients : last.downloads[c].found
    /\ TenantSteps(last.trace) = {}
    /\ last.httpStatus = 500

\* C19: in a daily job whose Steps 1 and 2 completed every active client is
\* processed exactly once, one at a time in the order of the list; the summary has
\* exactly one entry per active client, in that order; and the entry of a client
\* and the errors recorded against it are those of processing that client alone,
\* whatever happened to the other clients.
C19_TenantIsolation ==
    [][(last'.kind = "cron" /\ last'.lifecycle = "ok") =>
          LET order == last'.activeClients
              res == last'.clientResults
              trace == last'.trace
          IN  /\ Len(res) = Len(order)
              /\ \A k \in DOMAIN order :
                    /\ res[k].clientId = order[k]
                    /\ Cardinality({i \in DOMAIN trace :
                                       trace[i] = Step("fetch", order[k])}) = 1
                    /\ \E alone \in CronClient(
                                       CronStart(last'.afterExpire, nextId, <<>>, <<>>, <<>>),
                                       order[k], last'.downloads[order[k]],
                                       last'.remotes[order[k]], now, statusDefault) :
                          /\ res[k] = alone.clientResults[1]
                          /\ ErrorsOf(last'.errors, order[k]) = alone.errors
              /\ \A i, j \in TenantSteps(trace) :
                    i < j => PositionOf(order, trace[i].clientId)
                                <= PositionOf(order, trace[j].clientId)
              /\ \A i \in DOMAIN last'.errors :
                    \E k \in DOMAIN order : last'.errors[i].clientId = order[k]]_vars

\* the client processed first failed its download and its upload; the client
\* processed after it took in a new record and succeeded
C19_Witness ==
    /\ last.kind = "cron"
    /\ last.lifecycle = "ok"
    /\ Len(last.clientResults) = 2
    /\ last.clientResults[1].status = "failed"
    /\ ErrorsOf(last.errors, last.clientResults[1].clientId) = last.errors
    /\ Len(last.errors) = 2
    /\ last.clientResults[2].status = "success"
    /\ last.clientResults[2].recordsAdded = 1

\* the kinds of operation that call the remote platform
Uploads == {"cron", "sync", "purchase"}

\* C15: no batch sent to the remote platform, by an upload or by a removal,
\* contains a row in which EMAIL and PHONE are both absent, even when the record
\* it would come from has daysRemaining > 0.
C15_NoEmptyRows ==
    last.kind \in Uploads =>
       \A i \in DOMAIN last.calls :
          \A k \in DOMAIN last.calls[i].rows :
             last.calls[i].rows[k].EMAIL \/ last.calls[i].rows[k].PHONE

\* a daily job uploaded the audience of a tenant that holds, with days remaining, a
\* record without email and phone: the batch has fewer rows than the audience
C15_Witness ==
    /\ last.kind = "cron"
    /\ last.lifecycle = "ok"
    /\ \E id \in DOMAIN last.afterExpire :
          /\ last.afterExpire[id].clientId = 1
          /\ ~Truthy(last.afterExpire[id].email)
          /\ ~Truthy(last.afterExpire[id].phone)
          /\ last.afterExpire[id].daysRemaining > 0
    /\ Len(last.calls) > 0
    /\ Len(last.calls[1].rows)
          < Cardinality({id \in DOMAIN members : members[id].clientId = 1})

\* the call that ends the attempts of its batch in failure
Fatal(call) ==
    call.answer # OK /\ (call.answer # RATE_LIMIT \/ call.attempt = MAX_RETRIES)

\* C16: the batches of an upload are sent one at a time in index order; batch k+1
\* is attempted only after batch k succeeded; a batch is retried only after a rate
\* limit answer and at most MAX_RETRIES times in all; after a batch failed no
\* later call is made and the run fails, naming that batch.
C16_SequentialBatches ==
    last.kind = "sync" =>
       LET calls == last.calls
       IN  /\ Len(calls) > 0 => calls[1].batch = 1 /\ calls[1].attempt = 1
           /\ \A i \in DOMAIN calls :
                 /\ calls[i].attempt <= MAX_RETRIES
                 /\ calls[i].batch <= BatchCount(last.formatted)
                 /\ Len(calls[i].rows) <= META_BATCH_SIZE
                 /\ i < Len(calls) =>
                       \/ /\ calls[i].answer = OK
                          /\ calls[i + 1].batch = calls[i].batch + 1
                          /\ calls[i + 1].attempt = 1
                       \/ /\ calls[i].answer = RATE_LIMIT
                          /\ calls[i + 1].batch = calls[i].batch
                          /\ calls[i + 1].attempt = calls[i].attempt + 1
                 /\ Fatal(calls[i]) =>
                       /\ i = Len(calls)
                       /\ ~last.success
                       /\ last.httpStatus = 500
                       /\ last.failedBatch = calls[i].batch
           /\ last.success /\ last.formatted > 0 =>
                 /\ calls[Len(calls)].answer = OK
                 /\ calls[Len(calls)].batch = BatchCount(last.formatted)
           /\ ~last.success => Len(calls) > 0 /\ Fatal(calls[Len(calls)])

\* an upload of three batches: batch 1 went through after a rate limit answer,
\* batch 2 failed, batch 3 would have gone through and was not attempted
C16_Witness ==
    /\ last.kind = "sync"
    /\ BatchCount(last.formatted) = 3
    /\ last.failedBatch = 2
    /\ last.remote[3] = <<OK, OK, OK>>
    /\ \E i \in DOMAIN last.calls :
          last.calls[i].batch = 1 /\ last.calls[i].answer = RATE_LIMIT
    /\ \A i \in DOMAIN last.calls : last.calls[i].batch # 3

\* the number of rows in the calls that the remote platform accepted
RECURSIVE Accepted(_)
Accepted(calls) ==
    IF calls = <<>> THEN 0
    ELSE (IF Head(calls).answer = OK THEN Len(Head(calls).rows) ELSE 0)
            + Accepted(Tail(calls))

\* C17: when an upload fails at batch k the outcome still carries the number of
\* records that the earlier batches uploaded: the meta_sync_log row of the run has
\* that number in recordsSuccess.
C17_PartialCount ==
    (last.kind = "sync" /\ ~last.success) =>
       /\ syncLogs[Len(syncLogs)].status = "failed"
       /\ syncLogs[Len(syncLogs)].recordsSuccess = Accepted(last.calls)

\* the ids of the records that the matching loop of a purchase upload found
MatchedIds(matched) == {matched[k].audienceMemberId : k \in DOMAIN matched}

\* C18: in a purchase upload every matched record is deleted locally whatever the
\* remote removal answers; when the remote delete call fails the deletions stay,
\* exactly one meta_sync_log row of type remove and status failed is written,
\* the call is not repeated, and the request still answers with a success summary.
C18_LocalDeletionFirst ==
    [][last'.kind = "purchase" =>
          /\ DOMAIN members' = DOMAIN members \ MatchedIds(last'.matched)
          /\ \A id \in DOMAIN members' : members'[id] = members[id]
          /\ last'.removedFromAudience = Cardinality(MatchedIds(last'.matched))
          /\ last'.success
          /\ (last'.called /\ ~last'.remoteOk) =>
                /\ Len(last'.calls) = 1
                /\ last'.calls[1].answer # OK
                /\ Len(syncLogs') = Len(syncLogs) + 1
                /\ SubSeq(syncLogs', 1, Len(syncLogs)) = syncLogs
                /\ syncLogs'[Len(syncLogs')].syncType = "remove"
                /\ syncLogs'[Len(syncLogs')].status = "failed"
                /\ syncLogs'[Len(syncLogs')].clientId = last'.clientId
                /\ syncLogs'[Len(syncLogs')].recordsSuccess = 0
                /\ syncLogs'[Len(syncLogs')].recordsFailed = Len(last'.calls[1].rows)
                /\ last'.removedFromMeta = 0
                /\ nextId' = nextId]_vars

\* a purchase upload matched a stored record, the remote delete call failed, the
\* record is gone from the table and the last sync log is the failed removal
C18_Witness ==
    /\ last.kind = "purchase"
    /\ last.called
    /\ ~last.remoteOk
    /\ Len(last.matched) > 0
    /\ \A k \in DOMAIN last.matched : last.matched[k].audienceMemberId \notin DOMAIN members
    /\ last.removedFromAudience > 0
    /\ Len(syncLogs) > 0
    /\ syncLogs[Len(syncLogs)].status = "failed"
    /\ last.success

\* C20: every file_processing_log row is created in status 'processing' and makes
\* exactly one transition, to 'completed' or to 'failed'; no row is left in
\* 'processing' when its run has ended.
C20_LogLifecycle ==
    \A i \in DOMAIN fileLogs :
       /\ Len(fileLogs[i].history) = 2
       /\ fileLogs[i].history[1] = "processing"
       /\ fileLogs[i].history[2] \in {"completed", "failed"}
       /\ fileLogs[i].status = fileLogs[i].history[2]

----------------------------------------------------------------------------
(* Phone normalization: lib/csv-parser.ts *)

\* the inputs of the test script test-phone-normalization.js, as their characters
testCases ==
    { <<"(", "2", "0", "2", ")", " ", "5", "5", "5", "-", "1", "2", "3", "4">>,
      <<"2", "0", "2", "5", "5", "5", "1", "2", "3", "4">>,
      <<"+", "1", " ", "2", "0", "2", " ", "5", "5", "5", " ", "1", "2", "3", "4">>,
      <<"1", "2", "0", "2", "5", "5", "5", "1", "2", "3", "4">>,
      <<"5", "5", "5", "-", "1", "2", "3", "4">>,
      <<"2", "0", "2", "-", "5", "5", "5", "-", "1", "2", "3", "4">>,
      <<"1", "-", "2", "0", "2", "-", "5", "5", "5", "-", "1", "2", "3", "4">>,
      <<"4", "4", " ", "2", "0", " ", "7", "1", "2", "3", " ", "4", "5", "6", "7">>,
      <<"(", "5", "5", "5", ")", " ", "1", "2", "3">>,
      <<"8", "0", "0", "-", "5", "5", "5", "-", "1", "2", "3", "4">> }

\* the test inputs and every prefix of one, so that every number of digits from
\* 0 to 12 occurs
PhoneInputs == UNION {{SubSeq(raw, 1, k) : k \in 0..Len(raw)} : raw \in testCases}

\* the characters that the class \D of the regular expression does not match
IsDigit(c) == c \in {"0", "1", "2", "3", "4", "5", "6", "7", "8", "9"}

\* String.prototype.trim leaves no character: the string holds only spaces
IsBlank(raw) == \A k \in DOMAIN raw : raw[k] = " "

\* normalizePhone: phone.replace(/\D/g, '')
normalizePhone(phone) == SelectSeq(phone, IsDigit)

\* the phone of a parsed row: null for a blank cell or when no digit is left
ParsedPhone(rawPhone) ==
    IF IsBlank(rawPhone) \/ Len(normalizePhone(rawPhone)) = 0
    THEN [absent |-> TRUE, digits |-> <<>>]
    ELSE [absent |-> FALSE, digits |-> normalizePhone(rawPhone)]

\* parseCSV normalizes the phone cell of one row
NormalizePhone(rawPhone) ==
    /\ now <= MaxOps
    /\ last' = [kind |-> "normalizePhone", raw |-> rawPhone,
                normalized |-> normalizePhone(rawPhone),
                phone |-> ParsedPhone(rawPhone)]
    /\ now' = now + 1
    /\ UNCHANGED <<audiences, requests>>
    /\ UNCHANGED <<members, nextId, statusDefault, syncLogs, fileLogs>>

NextPhone == \E rawPhone \in PhoneInputs : NormalizePhone(rawPhone)

SpecPhone == Init /\ [][NextPhone]_vars

\* C21: the phone of a parsed row is absent when fewer than 7 digits remain, the
\* digits unchanged when 11 or more remain, and otherwise the digits with the
\* default country code '1' in front.
C21_CountryCode ==
    last.kind = "normalizePhone" =>
       LET digits == SelectSeq(last.raw, IsDigit)
       IN  last.phone =
              IF Len(digits) < 7 THEN [absent |-> TRUE, digits |-> <<>>]
              ELSE IF Len(digits) >= 11 THEN [absent |-> FALSE, digits |-> digits]
              ELSE [absent |-> FALSE, digits |-> <<"1">> \o digits]

----------------------------------------------------------------------------
(* The cron test endpoint: GET /api/cron/test *)

NextCronTest ==
    \/ \E lifecycle \in {"decrement fails", "expire fails"}, updatedAtAuto \in BOOLEAN :
          CronTest(lifecycle, updatedAtAuto, <<1, 2>>,
                   [c \in Clients |-> Downloaded(<<John>>)], Answering(OK))
    \/ \E updatedAtAuto \in BOOLEAN, order \in ClientOrders,
          downloads \in CronDownloads, answer \in {OK, REMOTE_ERROR} :
          CronTest("ok", updatedAtAuto, order, downloads, Answering(answer))

SpecCronTest == InitLifecycle /\ [][NextCronTest]_vars

\* C22: GET /api/cron/test leaves every audience_members row as it was (no
\* decrement, no deletion, no row created or updated by ingestion) and makes no
\* call to the remote platform.
C22_TestWithoutProcessing ==
    [][last'.kind = "cron-test" =>
          /\ members' = members
          /\ nextId' = nextId
          /\ last'.calls = <<>>]_vars

----------------------------------------------------------------------------
(* The volume switch of processRecords *)

\* a short file followed by filler rows up to n rows
PaddedTo(f, n) == f \o [i \in 1..(n - Len(f)) |-> PadRow(i)]

\* files of one row less than BATCH_SIZE, of BATCH_SIZE rows and of one row more,
\* whose first two rows match each other or do not
ThresholdFiles ==
    {PaddedTo(<<John, b>>, n) :
        b \in {John, JohnMoved}, n \in {BATCH_SIZE - 1, BATCH_SIZE, BATCH_SIZE + 1}}

InitThreshold ==
    /\ members = <<>>
    /\ nextId = 1
    /\ now = 1
    /\ audiences = StoredAudiences
    /\ requests = NoRequests
    /\ statusDefault = ACTIVE
    /\ syncLogs = <<>>
    /\ fileLogs = <<>>
    /\ last = NoOp

NextThreshold ==
    \E f \in ThresholdFiles, fail \in FailChoices : ProcessRecords(1, f, fail)

SpecThreshold == InitThreshold /\ [][NextThreshold]_vars

\* the outcomes of the path that the step took if the batched path starts at
\* least rows: the table and the counts
PathOutcomes(least) ==
    LET outs == IF Len(last'.records) >= least
                THEN processBatchedRecords(members, nextId, last'.records,
                                           last'.clientId, SourceFileAt(now), now,
                                           statusDefault, last'.fail)
                ELSE processIndividualRecords(members, nextId, last'.records,
                                              last'.clientId, SourceFileAt(now), now,
                                              statusDefault, last'.fail)
    IN  {[M |-> out.M, result |-> out.result] : out \in outs}

\* C23: processRecords takes the row-by-row path for every input of fewer than
\* 100 rows and the two-phase batched path for every input of 100 rows or more,
\* an input of exactly 100 rows included.
C23_SwitchAtThreshold ==
    [][last'.kind = "bulk" =>
          [M |-> members', result |-> last'.result] \in PathOutcomes(BATCH_SIZE)]_vars

----------------------------------------------------------------------------
(* Retry, backoff and batching of uploadToCustomerList *)

\* the calls of the trace that belong to batch b, in order
CallsOf(calls, b) == SelectSeq(calls, LAMBDA c : c.batch = b)

\* C24: every batch is attempted at most MAX_RETRIES (3) times and not again after
\* its first success; after a rate limit answer to attempt a < 3 the upload sleeps
\* INITIAL_BACKOFF_MS * 2^(a-1) ms (1000, then 2000) and makes attempt a + 1; it
\* does not sleep after a failed third attempt.
C24_RetryBackoff ==
    last.kind = "sync" =>
       \A b \in 1..BatchCount(last.formatted) :
          LET tries == CallsOf(last.calls, b)
          IN  /\ Len(tries) <= MAX_RETRIES
              /\ \A a \in DOMAIN tries :
                    /\ tries[a].attempt = a
                    /\ tries[a].answer = OK => a = Len(tries) /\ tries[a].waited = 0
                    /\ (tries[a].answer = RATE_LIMIT /\ a < MAX_RETRIES) =>
                          /\ tries[a].waited = INITIAL_BACKOFF_MS * 2 ^ (a - 1)
                          /\ tries[a].waited = IF a = 1 THEN 1000 ELSE 2000
                          /\ a < Len(tries)
                    /\ (tries[a].answer # OK /\ a = MAX_RETRIES) => tries[a].waited = 0

\* a batch was rate limited three times: sleeps of 1000 and 2000 ms, none after the
\* third attempt
C24_Witness ==
    /\ last.kind = "sync"
    /\ \E b \in 1..BatchCount(last.formatted) :
          LET tries == CallsOf(last.calls, b)
          IN  /\ Len(tries) = MAX_RETRIES
              /\ \A a \in DOMAIN tries : tries[a].answer = RATE_LIMIT
              /\ tries[1].waited = 1000
              /\ tries[2].waited = 2000
              /\ tries[3].waited = 0

\* C25: an error that is not a rate limit ends its batch at once: no further
\* attempt of that batch (or of any other) is made and no sleep follows it,
\* whatever the number of attempts left.
C25_NonRetryable ==
    last.kind = "sync" =>
       \A i \in DOMAIN last.calls :
          last.calls[i].answer = REMOTE_ERROR =>
             /\ last.calls[i].waited = 0
             /\ i = Len(last.calls)
             /\ ~last.success

\* after a rate limit answer the second attempt of a batch got an error that is
\* not a rate limit: the third attempt was not made
C25_Witness ==
    /\ last.kind = "sync"
    /\ Len(last.calls) = 2
    /\ last.calls[1].answer = RATE_LIMIT
    /\ last.calls[2].answer = REMOTE_ERROR
    /\ last.calls[2].attempt = 2
    /\ last.calls[2].waited = 0
    /\ ~last.success

\* the rows of the calls that the remote platform accepted, in order
RECURSIVE AcceptedRows(_)
AcceptedRows(calls) ==
    IF calls = <<>> THEN <<>>
    ELSE (IF Head(calls).answer = OK THEN Head(calls).rows ELSE <<>>)
            \o AcceptedRows(Tail(calls))

\* C26: the batches are the formatted records cut in order into chunks of
\* META_BATCH_SIZE (1000): no batch is empty, every batch but the last has exactly
\* 1000 rows, every call carries the chunk of its batch, and in an upload that
\* succeeds the accepted batches put end to end are the formatted records, each
\* sent once, and recordsUploaded is their number.
C26_BatchPartition ==
    last.kind = "sync" =>
       LET data == formatAudienceData(SyncMembers(members, nextId, last.clientId))
           n == Len(data)
       IN  /\ last.formatted = n
           /\ \A i \in DOMAIN last.calls :
                 LET c == last.calls[i]
                 IN  /\ Len(c.rows) > 0
                     /\ c.batch < BatchCount(n) => Len(c.rows) = META_BATCH_SIZE
                     /\ c.batch = BatchCount(n) =>
                           Len(c.rows) = n - (BatchCount(n) - 1) * META_BATCH_SIZE
                     /\ \A k \in DOMAIN c.rows :
                           c.rows[k] = data[(c.batch - 1) * META_BATCH_SIZE + k]
           /\ last.success =>
                 /\ AcceptedRows(last.calls) = data
                 /\ last.recordsSynced = n

\* an upload of exactly two full batches and one more row succeeded: three
\* batches of 1000, 1000 and 1 rows
C26_Witness ==
    /\ last.kind = "sync"
    /\ last.success
    /\ last.formatted = 2 * META_BATCH_SIZE + 1
    /\ last.recordsSynced = last.formatted
    /\ \E i \in DOMAIN last.calls :
          last.calls[i].batch = 3 /\ Len(last.calls[i].rows) = 1

----------------------------------------------------------------------------
(* The lifetime of a record over a month of daily jobs *)

\* the jobs of a series: one more than a record can outlive, and one to spare
RetentionHorizon == DAYS_REMAINING_DEFAULT + 2

\* the first scheduled run downloads the file and creates the record
FirstRun(updatedAtAuto) ==
    /\ last = NoOp
    /\ CronBody("cron", "ok", updatedAtAuto, <<2>>,
                [c \in Clients |-> Downloaded(<<John>>)], Answering(OK))

\* a later scheduled run finds no file
LaterRun(lifecycle, updatedAtAuto) ==
    /\ last # NoOp
    /\ now <= RetentionHorizon
    /\ CronBody("cron", lifecycle, updatedAtAuto, <<2>>,
                [c \in Clients |-> NoFile], Answering(OK))

\* GET /api/cron/test between two scheduled runs
TestRun(updatedAtAuto) ==
    /\ last # NoOp
    /\ now <= RetentionHorizon
    /\ CronBody("cron-test", "ok", updatedAtAuto, <<2>>,
                [c \in Clients |-> NoFile], Answering(OK))

NextRetention ==
    \/ \E updatedAtAuto \in BOOLEAN : FirstRun(updatedAtAuto)
    \/ \E lifecycle \in LifecycleOutcomes : LaterRun(lifecycle, TRUE)
    \/ TestRun(TRUE)

SpecRetention == Init /\ [][NextRetention]_vars

\* C27: the record created by scheduled run 1 with daysRemaining 30 and never
\* matched again is stored with daysRemaining > 0 after each of the scheduled
\* runs 2..30 and is deleted by the lifecycle steps of scheduled run 31; after
\* every completed lifecycle every stored record has 1 <= daysRemaining <= 30.
C27_RetentionLifetime ==
    (last.kind \in {"cron", "cron-test"} /\ last.lifecycle = "ok") =>
       /\ \A id \in DOMAIN last.afterExpire :
             /\ last.afterExpire[id].daysRemaining >= 1
             /\ last.afterExpire[id].daysRemaining <= DAYS_REMAINING_DEFAULT
       /\ (last.kind = "cron" /\ last.scheduled \in 2..DAYS_REMAINING_DEFAULT) =>
             /\ 1 \in DOMAIN members
             /\ members[1].daysRemaining > 0
       /\ (last.kind = "cron" /\ last.scheduled = DAYS_REMAINING_DEFAULT + 1) =>
             /\ 1 \in DOMAIN last.afterDecrement
             /\ 1 \notin DOMAIN members

----------------------------------------------------------------------------
(* The counts of a bulk run *)

\* C28: when processRecords returns for n rows, newRecords + updated + the number
\* of rows its errors report is n, newRecords is the number of records the run
\* inserted and updated the number of rows whose update was written, on the
\* sequential and on the batched path, also when a write fails.
C28_CountConservation ==
    [][last'.kind = "bulk" =>
          LET r == last'.result
              reported == {k \in DOMAIN r.errors : r.errors[k].kind = "Row"}
              written == {i \in DOMAIN last'.rows :
                             ~last'.rows[i].dedup.isNew /\ last'.rows[i].written}
          IN  /\ r.newRecords + r.updated + Cardinality(reported)
                    = Len(last'.records)
              /\ r.newRecords = Cardinality(DOMAIN members' \ DOMAIN members)
              /\ r.updated = Cardinality(written)]_vars

----------------------------------------------------------------------------
(* Two bulk runs of one tenant at the same time *)

\* the two runs: the manual upload and the scheduled one
Runs == {"manual", "cron"}

\* processRecords is called: the run takes new Date() and enters the loop of
\* processIndividualRecords
StartRun(r, records) ==
    /\ r \notin DOMAIN requests
    /\ Len(records) <= BATCH_SIZE
    /\ requests' = (r :> [pc |-> "dedup", clientId |-> 1, records |-> records,
                          i |-> 1, today |-> now, dedup |-> NoMatch,
                          result |-> EmptyResult]) @@ requests
    /\ last' = [kind |-> "start", request |-> r]
    /\ now' = now + 1
    /\ UNCHANGED <<members, nextId, statusDefault, syncLogs, fileLogs, audiences>>

\* await deduplicateRecord(record, clientId) of run r returns
Dedup(r) ==
    /\ r \in DOMAIN requests
    /\ requests[r].pc = "dedup"
    /\ \E d \in deduplicateRecord(members, requests[r].records[requests[r].i],
                                  requests[r].clientId) :
          requests' = [requests EXCEPT ![r].dedup = d, ![r].pc = "write"]
    /\ last' = [kind |-> "dedup", request |-> r]
    /\ UNCHANGED <<members, nextId, now, statusDefault, syncLogs, fileLogs, audiences>>

\* await prisma.audienceMember.create or update of run r returns, and the loop
\* goes to the next row
Write(r) ==
    /\ r \in DOMAIN requests
    /\ requests[r].pc = "write"
    /\ LET q == requests[r]
           record == q.records[q.i]
           next == IF q.i = Len(q.records) THEN "done" ELSE "dedup"
       IN  IF q.dedup.isNew
           THEN /\ members' = Insert(members, nextId,
                                     NewMember(record, q.clientId, SourceFileAt(q.today),
                                               q.today, statusDefault))
                /\ nextId' = nextId + 1
                /\ requests' = [requests EXCEPT ![r].result.newRecords = @ + 1,
                                                ![r].i = @ + 1, ![r].pc = next]
           ELSE /\ members' = [members EXCEPT ![q.dedup.audienceMemberId] =
                                  OverwriteMember(@, record, q.today)]
                /\ nextId' = nextId
                /\ requests' = [requests EXCEPT ![r].result.updated = @ + 1,
                                                ![r].result.duplicates = @ + 1,
                                                ![r].i = @ + 1, ![r].pc = next]
    /\ last' = [kind |-> "write", request |-> r]
    /\ UNCHANGED <<now, statusDefault, syncLogs, fileLogs, audiences>>

NextRace ==
    \/ \E r \in Runs, f \in {<<John>>, <<JohnByPhone, John>>} : StartRun(r, f)
    \/ \E r \in Runs : Dedup(r)
    \/ \E r \in Runs : Write(r)

SpecRace == Init /\ [][NextRace]_vars

\* C29: when two bulk runs of tenant 1 whose files name John have both returned,
\* the table holds at most one record of tenant 1 with his email, first name and
\* last name, compared without regard to case.
C29_NoDuplicateIdentity ==
    (\A r \in Runs : r \in DOMAIN requests /\ requests[r].pc = "done") =>
       Cardinality(EmailNameMatches(members, John, 1)) <= 1

----------------------------------------------------------------------------
(* Two sync requests of a tenant without an audience *)

\* POST /api/meta/sync of request r: client.findUnique and audienceMember.findMany
\* return, and the stored audience id decides whether one is created
SyncRead(r, clientId) ==
    /\ r \notin DOMAIN requests
    /\ requests' = (r :> [pc |-> IF metaAudienceId(clientId) = NULL
                                 THEN "create" ELSE "log",
                          clientId |-> clientId,
                          audienceId |-> metaAudienceId(clientId),
                          created |-> FALSE,
                          audienceMembers |-> SyncMembers(members, nextId, clientId),
                          logId |-> 0]) @@ requests
    /\ last' = [kind |-> "sync-read", request |-> r]
    /\ now' = now + 1
    /\ UNCHANGED <<members, nextId, statusDefault, syncLogs, fileLogs, audiences>>

\* await createCustomerList of request r returns the id of a new audience, or
\* throws: the failed log has no audience id and the request answers 500
SyncCreate(r, answer) ==
    /\ r \in DOMAIN requests
    /\ requests[r].pc = "create"
    /\ LET q == requests[r]
       IN  IF answer = OK
           THEN /\ requests' = [requests EXCEPT ![r].audienceId = "aud-" \o r,
                                                ![r].created = TRUE,
                                                ![r].pc = "save"]
                /\ UNCHANGED syncLogs
           ELSE /\ requests' = [requests EXCEPT ![r].pc = "done"]
                /\ syncLogs' = Append(syncLogs,
                      [SyncLog(q.clientId, <<"failed">>, Len(q.audienceMembers), 0,
                               Len(q.audienceMembers)) EXCEPT !.audienceId = NULL])
    /\ last' = [kind |-> "sync-create", request |-> r]
    /\ UNCHANGED <<members, nextId, now, statusDefault, fileLogs, audiences>>

\* await prisma.client.update({ metaAudienceId: audienceId }) of request r returns
SyncSave(r) ==
    /\ r \in DOMAIN requests
    /\ requests[r].pc = "save"
    /\ audiences' = [audiences EXCEPT ![requests[r].clientId] = requests[r].audienceId]
    /\ requests' = [requests EXCEPT ![r].pc = "log"]
    /\ last' = [kind |-> "sync-save", request |-> r]
    /\ UNCHANGED <<members, nextId, now, statusDefault, syncLogs, fileLogs>>

\* await prisma.metaSyncLog.create of request r returns: the log in status
\* 'processing' carries the audience id the request works with
SyncLogCreate(r) ==
    /\ r \in DOMAIN requests
    /\ requests[r].pc = "log"
    /\ LET q == requests[r]
       IN  syncLogs' = Append(syncLogs,
              [SyncLog(q.clientId, <<"processing">>, Len(q.audienceMembers), 0, 0)
                  EXCEPT !.audienceId = q.audienceId])
    /\ requests' = [requests EXCEPT ![r].pc = "upload", ![r].logId = Len(syncLogs) + 1]
    /\ last' = [kind |-> "sync-log", request |-> r]
    /\ UNCHANGED <<members, nextId, now, statusDefault, fileLogs, audiences>>

\* the upload of request r and the update of its log return
SyncFinish(r, answer) ==
    /\ r \in DOMAIN requests
    /\ requests[r].pc = "upload"
    /\ LET q == requests[r]
           formattedData == formatAudienceData(q.audienceMembers)
           up == uploadToCustomerList(formattedData, <<<<answer, answer, answer>>>>)
           log == syncLogs[q.logId]
       IN  syncLogs' = [syncLogs EXCEPT ![q.logId] =
              IF Len(q.audienceMembers) = 0
              THEN [log EXCEPT !.status = "completed",
                               !.history = Append(@, "completed")]
              ELSE IF up.threw
              THEN [log EXCEPT !.status = "failed",
                               !.recordsFailed = Len(formattedData),
                               !.history = Append(@, "failed")]
              ELSE [log EXCEPT !.status = "completed",
                               !.recordsSuccess = up.recordsUploaded,
                               !.recordsFailed = Len(formattedData) - up.recordsUploaded,
                               !.history = Append(@, "completed")]]
    /\ requests' = [requests EXCEPT ![r].pc = "done"]
    /\ last' = [kind |-> "sync-finish", request |-> r]
    /\ UNCHANGED <<members, nextId, now, statusDefault, fileLogs, audiences>>

NextAudience ==
    \/ \E r \in {"s1", "s2", "s3"}, c \in Clients : SyncRead(r, c)
    \/ \E r \in DOMAIN requests, answer \in {OK, REMOTE_ERROR} : SyncCreate(r, answer)
    \/ \E r \in DOMAIN requests : SyncSave(r)
    \/ \E r \in DOMAIN requests : SyncLogCreate(r)
    \/ \E r \in DOMAIN requests, answer \in {OK, REMOTE_ERROR} : SyncFinish(r, answer)

SpecAudience == Init /\ [][NextAudience]_vars

\* C30: however the sync requests of a tenant without a stored audience id
\* interleave, createCustomerList creates at most one audience for the tenant,
\* and once the requests have returned every sync log of the tenant has the
\* audience id stored on the tenant.
C30_OneAudiencePerTenant ==
    \A c \in Clients :
       LET of == {r \in DOMAIN requests : requests[r].clientId = c}
       IN  /\ Cardinality({r \in of : requests[r].created}) <= 1
           /\ (\A r \in of : requests[r].pc = "done") =>
                 \A k \in DOMAIN syncLogs :
                    syncLogs[k].clientId = c => syncLogs[k].audienceId = audiences[c]

====
